---- MODULE Spec2Model ----
(***************************************************************************)
(* Verification model of the ESP32-S3 dashboard diagnostic harness:        *)
(*   - scripts/monitor-telnet.py      TelnetMonitor.reader_thread          *)
(*   - scripts/monitor-errors.py      ErrorMonitor.analyze_line            *)
(*   - tests/python/comprehensive_stress_test.py   StressTester            *)
(*   - tests/python/wait_for_recovery.py           main                    *)
(*   - tests/integration/stability/stress_test.py  request threads         *)
(*   - tests/tools/monitoring/monitor_device_health.py  start/stop         *)
(*   - tests/tools/diagnostics/isolate_freeze.py   main                    *)
(*   - tests/python/tests/test_stability_diagnostics.py  rate limit test   *)
(*   - tests/integration/stability/stress_test.py  main loop, monitor      *)
(*   - tests/tools/monitoring/telnet_monitor.py    monitor, process_line   *)
(*   - tests/python/pytest_plugins/esp32_safety.py  retry wrapper          *)
(* Each part has its own specification (SpecReader, SpecClassifier, ...);  *)
(* the variables of the parts a specification does not run stay at their   *)
(* idle values.                                                            *)
(***************************************************************************)
EXTENDS Integers, Sequences, FiniteSets, TLC

VARIABLES
    \* ---- TelnetMonitor (scripts/monitor-telnet.py)
    input,          \* the bytes the device sends on the log socket, in order
    pos,            \* how many of them recv has returned so far
    buffer,         \* reader_thread's local `buffer` (decoded characters)
    line_queue,     \* self.line_queue
    connected,      \* self.connected
    \* ---- ErrorMonitor (scripts/monitor-errors.py)
    error_history,  \* self.error_history: the incidents, oldest first
    error_counts,   \* self.error_counts: category -> count (a dict)
    last_panic,     \* self.last_panic: None or an incident
    context_lines,  \* self.context_lines: the rolling context buffer
    context_shown,  \* the context block handle_critical_error printed last
    \* ---- StressTester, one profile call (comprehensive_stress_test.py)
    test,           \* the test function that is running
    args,           \* its arguments
    pc,             \* where the function is
    now,            \* time.time(), in seconds since the function's time origin
    result,         \* the function's `result` dict
    local,          \* the function's local variables
    crash_declared, \* the "Device crashed" message has been printed
    consecutive_failures,   \* liveness probes that failed in a row
    \* ---- wait_for_recovery.main (tests/python/wait_for_recovery.py)
    wr_pc,          \* where main is
    wr_now,         \* datetime.now()
    down_since,     \* down_since
    check_count,    \* check_count
    stable_checks,  \* stability checks passed in the `for i in range(5)` loop
    recoveries,     \* the "Device is UP! ... Was down for" reports printed
    device_up,      \* what the last check_device() returned
    \* ---- StressTester.run_all_tests and wait_for_device
    ra_pc,          \* where run_all_tests is
    ra_index,       \* how many entries of `tests` have been started
    results,        \* self.results
    wait_elapsed,   \* time.time() - start in wait_for_device
    wait_result,    \* what the last wait_for_device call returned
    wait_alive,     \* what is_device_alive returned last (main, wait_for_device)
    \* ---- stress_test (tests/integration/stability/stress_test.py)
    stats,          \* the `stats` dict the request threads share
    th_pc,          \* where each request thread is in single_request
    th_reply,       \* what each thread's requests.get came back with
    th_loaded,      \* the counter value each thread has read for its `+= 1`
    th_started,     \* threads make_concurrent_requests has started
    th_joined,      \* threads it has gone past in `for t in threads: t.join`
    \* ---- DeviceHealthMonitor (tests/tools/monitoring/monitor_device_health.py)
    running,        \* self.running
    hm_thread,      \* where the monitor thread is in monitor_loop
    hm_main,        \* where the main thread is between start() and stop()
    total_requests, \* self.total_requests
    failed_requests,    \* self.failed_requests
    errors,         \* self.errors, the newest entries
    \* ---- main and TelnetMonitor.run (scripts/monitor-telnet.py)
    mn_pc,          \* where main is
    mn_retry,       \* args.retry
    mn_log,         \* a log file was given (args.log)
    retry_count,    \* retry_count
    mn_connects,    \* calls of monitor.connect() made so far
    mn_lines,       \* self.stats['lines']
    filters,        \* self.filters: the display filters added with add_filter
    mn_line,        \* run's local `line`: the line taken last (error monitor)
    \* ---- isolate_freeze.main (tests/tools/diagnostics/isolate_freeze.py)
    iso_pc,         \* where main is
    iso_index,      \* how many of its `tests` have been started
    iso_health,     \* what the last check_health() returned
    iso_failed,     \* the number of the test that returned False, 0 if none
    freeze_detected,    \* isolator.freeze_detected
    iso_summary,    \* the line the final summary printed
    \* ---- stress_test: the main loop and status_monitor (stress_test.py)
    st_pc,          \* where stress_test is
    st_now,         \* time.time() - start_time, in half seconds
    st_wake,        \* when what stress_test waits for is over
    st_duration,    \* duration, in half seconds
    sm_pc,          \* where the status_monitor thread is
    sm_wake,        \* when its time.sleep(5) is over
    \* ---- TelnetMonitor of tests/tools (tests/tools/monitoring/telnet_monitor.py)
    tool_filters,   \* self.filters: the names of the filters, in order
    tool_stats,     \* self.stats
    tool_result,    \* what the last call of process_line returned
    \* ---- esp32_retry_on_connection_error (pytest_plugins/esp32_safety.py)
    rt_pc,          \* where wrapper is
    rt_max_retries, \* the decorator's max_retries
    attempt,        \* the loop variable of `for attempt in range(max_retries)`
    rt_outcomes,    \* how each call of test_func ended, in order
    rt_result       \* how wrapper ended: what it returned or raised

readerVars == <<input, pos, buffer, line_queue, connected>>

classifierVars ==
    <<error_history, error_counts, last_panic, context_lines, context_shown>>

stressVars ==
    <<test, args, pc, now, result, local, crash_declared, consecutive_failures>>

recoveryVars ==
    <<wr_pc, wr_now, down_since, check_count, stable_checks, recoveries, device_up>>

runAllVars == <<ra_pc, ra_index, results, wait_elapsed, wait_result, wait_alive>>

threadVars == <<stats, th_pc, th_reply, th_loaded, th_started, th_joined>>

healthVars ==
    <<running, hm_thread, hm_main, total_requests, failed_requests, errors>>

monitorVars ==
    <<mn_pc, mn_retry, mn_log, retry_count, mn_connects, mn_lines, filters, mn_line>>

isolateVars ==
    <<iso_pc, iso_index, iso_health, iso_failed, freeze_detected, iso_summary>>

stressRunVars == <<st_pc, st_now, st_wake, st_duration, sm_pc, sm_wake>>

toolVars == <<tool_filters, tool_stats, tool_result>>

retryVars == <<rt_pc, rt_max_retries, attempt, rt_outcomes, rt_result>>

vars ==
    <<readerVars, classifierVars, stressVars, recoveryVars, runAllVars,
      threadVars, healthVars, monitorVars, isolateVars, stressRunVars,
      toolVars, retryVars>>

\* what a specification of one part leaves alone
notReader ==
    <<classifierVars, stressVars, recoveryVars, runAllVars, threadVars,
      healthVars, monitorVars, isolateVars, stressRunVars, toolVars,
      retryVars>>

notClassifier ==
    <<readerVars, stressVars, recoveryVars, runAllVars, threadVars,
      healthVars, monitorVars, isolateVars, stressRunVars, toolVars,
      retryVars>>

notStress ==
    <<readerVars, classifierVars, recoveryVars, runAllVars, threadVars,
      healthVars, monitorVars, isolateVars, stressRunVars, toolVars,
      retryVars>>

notRecovery ==
    <<readerVars, classifierVars, stressVars, runAllVars, threadVars,
      healthVars, monitorVars, isolateVars, stressRunVars, toolVars,
      retryVars>>

notRunAll ==
    <<readerVars, classifierVars, stressVars, recoveryVars, threadVars,
      healthVars, monitorVars, isolateVars, stressRunVars, toolVars,
      retryVars>>

notThreads ==
    <<readerVars, classifierVars, stressVars, recoveryVars, runAllVars,
      healthVars, monitorVars, isolateVars, stressRunVars, toolVars,
      retryVars>>

notHealth ==
    <<readerVars, classifierVars, stressVars, recoveryVars, runAllVars,
      threadVars, monitorVars, isolateVars, stressRunVars, toolVars,
      retryVars>>

notMonitor ==
    <<readerVars, classifierVars, stressVars, recoveryVars, runAllVars,
      threadVars, healthVars, isolateVars, stressRunVars, toolVars,
      retryVars>>

notMonitorReader ==
    <<classifierVars, stressVars, recoveryVars, runAllVars, threadVars,
      healthVars, isolateVars, stressRunVars, toolVars, retryVars>>

notIsolate ==
    <<readerVars, classifierVars, stressVars, recoveryVars, runAllVars,
      threadVars, healthVars, monitorVars, stressRunVars, toolVars,
      retryVars>>

\* all but the variables of the monitor, its reader and its error tracking
notErrorMonitor ==
    <<stressVars, recoveryVars, runAllVars, threadVars, healthVars,
      isolateVars, stressRunVars, toolVars, retryVars>>

\* all but the variables of the tools monitor
notTool ==
    <<readerVars, classifierVars, stressVars, recoveryVars, runAllVars,
      threadVars, healthVars, monitorVars, isolateVars, stressRunVars,
      retryVars>>

\* all but the variables of the retry wrapper
notRetry ==
    <<readerVars, classifierVars, stressVars, recoveryVars, runAllVars,
      threadVars, healthVars, monitorVars, isolateVars, stressRunVars,
      toolVars>>

-----------------------------------------------------------------------------
(* Bounds of the model *)

\* longest byte stream the device sends in one run
MaxStreamLen == 4

\* most lines given to analyze_line in one run
MaxLines == 3

\* the most entries of the tools monitor's error_patterns that match one line
MaxMatches == 2

\* most lines given to the tools monitor's process_line in one run
MaxToolLines == 2

\* the largest max_retries given to esp32_retry_on_connection_error
MaxRetries == 4

\* longest `duration` of an endurance test, in seconds
MaxDuration == 3

\* most bursts asked of a burst test
MaxBursts == 2

\* the request counter of the rate escalation stops counting here
MaxRequests == 3

\* wait_for_recovery is followed for this many seconds
MaxClock == 8

\* request threads of one burst of stress_test that are followed
MaxThreads == 2

\* samples of the health monitor that are counted and kept
MaxSamples == 2

\* calls of connect() that main of monitor-telnet.py is followed for
MaxConnects == 3

-----------------------------------------------------------------------------
(* Small helpers *)

\* all sequences over S of length 0..n
SeqsUpTo(S, n) == UNION {[1..k -> S] : k \in 0..n}

-----------------------------------------------------------------------------
(* Idle values of the parts a specification does not run *)

\* ErrorMonitor.__init__: the error tracking fields
IdleClassifier ==
    /\ error_history = <<>>
    /\ error_counts = <<>>
    /\ last_panic = "None"
    /\ context_lines = <<>>
    /\ context_shown = <<>>

\* StressTester.__init__: no test function has been called
IdleStress ==
    /\ test = "none"
    /\ args = <<>>
    /\ pc = "idle"
    /\ now = 0
    /\ result = <<>>
    /\ local = <<>>
    /\ crash_declared = FALSE
    /\ consecutive_failures = 0

\* wait_for_recovery has not been started
IdleRecovery ==
    /\ wr_pc = "idle"
    /\ wr_now = 0
    /\ down_since = 0
    /\ check_count = 0
    /\ stable_checks = 0
    /\ recoveries = <<>>
    /\ device_up = FALSE

\* run_all_tests has not been called
IdleRunAll ==
    /\ ra_pc = "idle"
    /\ ra_index = 0
    /\ results = <<>>
    /\ wait_elapsed = 0
    /\ wait_result = "None"
    /\ wait_alive = "None"

\* stress_test has not been called
IdleThreads ==
    /\ stats = <<>>
    /\ th_pc = <<>>
    /\ th_reply = <<>>
    /\ th_loaded = <<>>
    /\ th_started = 0
    /\ th_joined = 0

\* no DeviceHealthMonitor has been created
IdleHealth ==
    /\ running = FALSE
    /\ hm_thread = "idle"
    /\ hm_main = "idle"
    /\ total_requests = 0
    /\ failed_requests = 0
    /\ errors = <<>>

\* main of monitor-telnet.py is not running
\* run's `line` before the first line is taken
NoLine == [text |-> "", has |-> {}]

IdleMonitor ==
    /\ filters = {}
    /\ mn_line = NoLine
    /\ mn_pc = "idle"
    /\ mn_retry = FALSE
    /\ mn_log = FALSE
    /\ retry_count = 0
    /\ mn_connects = 0
    /\ mn_lines = 0

\* isolate_freeze.main is not running
IdleIsolate ==
    /\ iso_pc = "idle"
    /\ iso_index = 0
    /\ iso_health = "None"
    /\ iso_failed = 0
    /\ freeze_detected = FALSE
    /\ iso_summary = "None"

\* stress_test has not started its main loop or its status monitor
IdleStressRun ==
    /\ st_pc = "idle"
    /\ st_now = 0
    /\ st_wake = 0
    /\ st_duration = 0
    /\ sm_pc = "idle"
    /\ sm_wake = 0

\* the TelnetMonitor of tests/tools as constructed: no filter, no count
IdleTool ==
    /\ tool_filters = <<>>
    /\ tool_stats = [total_lines |-> 0, error |-> <<>>, event |-> <<>>, filter |-> <<>>]
    /\ tool_result = [kind |-> "idle", name |-> ""]

\* no wrapped function has been called
IdleRetry ==
    /\ rt_pc = "idle"
    /\ rt_max_retries = 0
    /\ attempt = 0
    /\ rt_outcomes = <<>>
    /\ rt_result = <<"running", "">>

-----------------------------------------------------------------------------
(* TelnetMonitor.reader_thread                                             *)

\* recv(1024): the largest chunk one read returns
RecvSize == 1024

\* The bytes of the log stream: an ASCII letter, '\r', '\n', and the two
\* bytes 0xC3 0xA9 of the UTF-8 encoding of one non-ASCII character.
Bytes == {"a", "CR", "LF", "C3", "A9"}

\* data.decode('utf-8', errors='replace') of one chunk: a lead byte followed
\* by its continuation byte is one character; a lead byte at the end of the
\* chunk or before another byte, and a continuation byte without a lead
\* byte, each become U+FFFD.
RECURSIVE Decode(_)
Decode(data) ==
    IF data = <<>> THEN <<>>
    ELSE IF Head(data) = "C3"
         THEN IF Len(data) >= 2 /\ data[2] = "A9"
              THEN <<"E9">> \o Decode(SubSeq(data, 3, Len(data)))
              ELSE <<"FFFD">> \o Decode(Tail(data))
    ELSE IF Head(data) = "A9"
         THEN <<"FFFD">> \o Decode(Tail(data))
    ELSE <<Head(data)>> \o Decode(Tail(data))

\* index of the first '\n' of s, 0 when there is none
RECURSIVE FirstLF(_, _)
FirstLF(s, i) ==
    IF i > Len(s) THEN 0
    ELSE IF s[i] = "LF" THEN i
    ELSE FirstLF(s, i + 1)

\* line.strip('\r'): drops the '\r' characters at both ends of the line
RECURSIVE StripCR(_)
StripCR(line) ==
    IF line = <<>> THEN <<>>
    ELSE IF Head(line) = "CR" THEN StripCR(Tail(line))
    ELSE IF line[Len(line)] = "CR" THEN StripCR(SubSeq(line, 1, Len(line) - 1))
    ELSE line

\* the loop with a queue of one line that drops its oldest line when full
RECURSIVE ProcessLines_drop_oldest(_, _)
ProcessLines_drop_oldest(buf, q) ==
    LET i == FirstLF(buf, 1) IN
    IF i = 0 THEN [queue |-> q, buffer |-> buf]
    ELSE LET line == StripCR(SubSeq(buf, 1, i - 1))
             rest == SubSeq(buf, i + 1, Len(buf))
         IN  ProcessLines_drop_oldest(
                 rest,
                 IF line = <<>> THEN q
                 ELSE IF q = <<>> THEN Append(q, line)
                 ELSE Append(Tail(q), line))

\* `while '\n' in buffer`: split at the first '\n', strip, put non-empty
\* lines on the queue.  Gives the queue and the buffer after the loop.
RECURSIVE ProcessLines(_, _)
ProcessLines(buf, q) ==
    LET i == FirstLF(buf, 1) IN
    IF i = 0 THEN [queue |-> q, buffer |-> buf]
    ELSE LET line == StripCR(SubSeq(buf, 1, i - 1))
             rest == SubSeq(buf, i + 1, Len(buf))
         IN  ProcessLines(rest, IF line # <<>> THEN Append(q, line) ELSE q)

\* a reader whose loop goes on reading after `connected` was cleared
RecvData_after_close(n) ==
    /\ n >= 1 /\ n <= RecvSize /\ pos + n <= Len(input)
    /\ LET data == SubSeq(input, pos + 1, pos + n)
           r    == ProcessLines(buffer \o Decode(data), line_queue)
       IN  /\ buffer' = r.buffer
           /\ line_queue' = r.queue
    /\ pos' = pos + n
    /\ UNCHANGED <<input, connected>>
    /\ UNCHANGED notReader

\* recv returned n bytes of data
RecvData(n) ==
    /\ connected
    /\ n >= 1 /\ n <= RecvSize /\ pos + n <= Len(input)
    /\ LET data == SubSeq(input, pos + 1, pos + n)
           r    == ProcessLines(buffer \o Decode(data), line_queue)
       IN  /\ buffer' = r.buffer
           /\ line_queue' = r.queue
    /\ pos' = pos + n
    /\ UNCHANGED <<input, connected>>
    /\ UNCHANGED notReader

\* recv raised socket.timeout: `continue`
RecvTimeout ==
    /\ connected
    /\ UNCHANGED readerVars
    /\ UNCHANGED notReader

\* recv returned b'': the peer closed the connection after its last byte
RecvClosed ==
    /\ connected
    /\ pos = Len(input)
    /\ connected' = FALSE
    /\ UNCHANGED <<input, pos, buffer, line_queue>>
    /\ UNCHANGED notReader

\* recv raised another exception
RecvError ==
    /\ connected
    /\ connected' = FALSE
    /\ UNCHANGED <<input, pos, buffer, line_queue>>
    /\ UNCHANGED notReader

\* TelnetMonitor.__init__ followed by a successful connect()
StartReader ==
    /\ input \in SeqsUpTo(Bytes, MaxStreamLen)
    /\ pos = 0
    /\ buffer = <<>>
    /\ line_queue = <<>>
    /\ connected = TRUE

\* no monitor is running
IdleReader ==
    /\ input = <<>>
    /\ pos = 0
    /\ buffer = <<>>
    /\ line_queue = <<>>
    /\ connected = FALSE

InitReader ==
    StartReader /\ IdleClassifier /\ IdleStress /\ IdleRecovery
        /\ IdleStressRun /\ IdleTool /\ IdleRetry /\ IdleRunAll
        /\ IdleThreads /\ IdleHealth /\ IdleMonitor /\ IdleIsolate

NextReader ==
    \/ \E n \in 1..MaxStreamLen : RecvData(n)
    \/ RecvTimeout
    \/ RecvClosed
    \/ RecvError

SpecReader == InitReader /\ [][NextReader]_vars

-----------------------------------------------------------------------------
(* ErrorMonitor.analyze_line                                               *)

\* self.context_size
context_size == 10

\* error_patterns with the generic rule moved to the front of the list
error_patterns_generic_first ==
    <<
    [category |-> "FAILURE", severity |-> "LOW",
     pattern |-> {"FAIL", "Failed", "failed"}],
    [category |-> "PANIC", severity |-> "CRITICAL",
     pattern |-> {"Guru Meditation Error", "Core.*panicked", "PANIC", "panic at"}],
    [category |-> "ASSERTION", severity |-> "CRITICAL",
     pattern |-> {"abort\\(\\) was called", "assert failed", "assertion.*failed"}],
    [category |-> "APP_ERROR", severity |-> "LOW",
     pattern |-> {"ERROR", "Error:", "error:"}]
    >>

\* self.error_patterns, in list order.  `pattern` holds the alternatives of
\* the rule's regular expression (pattern = alt1|alt2|...).
error_patterns ==
    <<
    [category |-> "PANIC", severity |-> "CRITICAL",
     pattern |-> {"Guru Meditation Error", "Core.*panicked", "PANIC", "panic at"}],
    [category |-> "CPU_EXCEPTION", severity |-> "CRITICAL",
     pattern |-> {"StoreProhibited", "LoadProhibited", "IllegalInstruction", "InstrFetchProhibited"}],
    [category |-> "ASSERTION", severity |-> "CRITICAL",
     pattern |-> {"abort\\(\\) was called", "assert failed", "assertion.*failed"}],
    [category |-> "MEMORY_ALLOC", severity |-> "HIGH",
     pattern |-> {"heap_caps_malloc.*failed", "MALLOC_CAP.*failed", "allocation failed"}],
    [category |-> "STACK_OVERFLOW", severity |-> "CRITICAL",
     pattern |-> {"stack overflow", "Stack canary.*corrupted", "stack smashing"}],
    [category |-> "HEAP_CORRUPTION", severity |-> "CRITICAL",
     pattern |-> {"CORRUPT HEAP", "heap corruption", "bad heap"}],
    [category |-> "WATCHDOG", severity |-> "HIGH",
     pattern |-> {"Task watchdog.*triggered", "watchdog timeout", "WDT timeout"}],
    [category |-> "TASK_CREATE", severity |-> "HIGH",
     pattern |-> {"Failed to create task", "vTaskCreate.*failed"}],
    [category |-> "WIFI", severity |-> "MEDIUM",
     pattern |-> {"WiFi: Failed", "wifi.*disconnect", "WIFI_REASON_", "Connection lost"}],
    [category |-> "HTTP_SERVER", severity |-> "HIGH",
     pattern |-> {"httpd.*failed", "HTTP server error", "Failed to start.*server"}],
    [category |-> "SOCKET", severity |-> "MEDIUM",
     pattern |-> {"socket.*failed", "bind.*failed", "listen.*failed"}],
    [category |-> "POWER", severity |-> "HIGH",
     pattern |-> {"Brownout detector", "voltage.*low", "power.*fail"}],
    [category |-> "STORAGE", severity |-> "MEDIUM",
     pattern |-> {"NVS.*error", "nvs.*failed", "partition.*error"}],
    [category |-> "ESP_LOG", severity |-> "MEDIUM",
     pattern |-> {"E \\(\\d+\\).*:"}],
    [category |-> "APP_ERROR", severity |-> "LOW",
     pattern |-> {"ERROR", "Error:", "error:"}],
    [category |-> "FAILURE", severity |-> "LOW",
     pattern |-> {"FAIL", "Failed", "failed"}]
    >>

\* The log lines of the model.  `has` holds the alternatives, of all the
\* rules, that re.search finds in the text with re.IGNORECASE.
LogLines ==
    {
    [text |-> "Guru Meditation Error: Core  0 panic'ed (LoadProhibited). Exception was unhandled.",
     has |-> {"Guru Meditation Error", "PANIC", "LoadProhibited", "ERROR", "Error:", "error:"}],
    [text |-> "panic at src/main.rs:42: assertion failed",
     has |-> {"PANIC", "panic at", "assertion.*failed", "FAIL", "Failed", "failed"}],
    [text |-> "assert failed: xQueueGenericSend queue.c:832",
     has |-> {"assert failed", "FAIL", "Failed", "failed"}],
    [text |-> "heap_caps_malloc(4096) failed",
     has |-> {"heap_caps_malloc.*failed", "FAIL", "Failed", "failed"}],
    [text |-> "E (5012) httpd: bind failed",
     has |-> {"httpd.*failed", "bind.*failed", "E \\(\\d+\\).*:", "FAIL", "Failed", "failed"}],
    [text |-> "W (900) wifi: wifi disconnect, reason 8",
     has |-> {"wifi.*disconnect"}],
    [text |-> "ERROR: Failed to create task",
     has |-> {"Failed to create task", "ERROR", "Error:", "error:", "FAIL", "Failed", "failed"}],
    [text |-> "heap corruption detected: allocation failed",
     has |-> {"allocation failed", "heap corruption", "FAIL", "Failed", "failed"}],
    [text |-> "I (312) main: FPS: 30.0 (avg: 29.5)",
     has |-> {}]
    }

\* error_def['regex'].search(line): some alternative of the rule occurs
Search(error_def, line) == error_def.pattern \cap line.has # {}

\* the scan without its `break`: the last matching rule is the one kept
RECURSIVE FirstMatch_no_break(_, _)
FirstMatch_no_break(line, i) ==
    IF i > Len(error_patterns) THEN 0
    ELSE LET later == FirstMatch_no_break(line, i + 1) IN
         IF later # 0 THEN later
         ELSE IF Search(error_patterns[i], line) THEN i
         ELSE 0

\* `for error_def in self.error_patterns: if ...search(line): ... break`:
\* the index of the rule that fires, scanning from rule i; 0 when the loop
\* ends without a match
RECURSIVE FirstMatch(_, _)
FirstMatch(line, i) ==
    IF i > Len(error_patterns) THEN 0
    ELSE IF Search(error_patterns[i], line) THEN i
    ELSE FirstMatch(line, i + 1)

\* error_info of the rule that fired
ErrorInfo(line, error_def) ==
    [line |-> line.text,
     category |-> error_def.category,
     severity |-> error_def.severity]

\* the count set to one instead of being added to
CountCategory_reset(counts, category) ==
    [c \in DOMAIN counts \cup {category} |->
        IF c = category THEN 1 ELSE counts[c]]

\* self.error_counts[category] = self.error_counts.get(category, 0) + 1
CountCategory(counts, category) ==
    [c \in DOMAIN counts \cup {category} |->
        IF c = category
        THEN (IF c \in DOMAIN counts THEN counts[c] ELSE 0) + 1
        ELSE counts[c]]

\* the buffer with its length test off by one: `>=` for `>`
PushContext_short(ctx, text) ==
    LET appended == Append(ctx, text) IN
    IF Len(appended) >= context_size * 2 THEN Tail(appended) ELSE appended

\* context_lines.append(...); if len > context_size * 2: pop(0)
PushContext(ctx, text) ==
    LET appended == Append(ctx, text) IN
    IF Len(appended) > context_size * 2 THEN Tail(appended) ELSE appended

\* "Find current line in context": the position of the first entry whose
\* text is the incident's line, from position i on; 0 when there is none
\* (positions count from 1, current_index = -1 of the code is 0 here)
RECURSIVE CurrentIndex(_, _, _)
CurrentIndex(ctx, text, i) ==
    IF i > Len(ctx) THEN 0
    ELSE IF ctx[i] = text THEN i
    ELSE CurrentIndex(ctx, text, i + 1)

\* max(a, b) and min(a, b)
Max(a, b) == IF a >= b THEN a ELSE b

Min(a, b) == IF a <= b THEN a ELSE b

\* handle_critical_error, "Show context": the lines it prints, the entries
\* start_idx .. end_idx - 1 of context_lines, the one at current_index
\* marked with ">>>"
ContextBlock(ctx, text) ==
    LET current_index == CurrentIndex(ctx, text, 1) - 1
        start_idx == Max(0, current_index - context_size)
        end_idx == Min(Len(ctx), current_index + context_size + 1)
    IN  [j \in 1..(end_idx - start_idx) |->
            [index |-> start_idx + j,
             line |-> ctx[start_idx + j],
             marked |-> (start_idx + j - 1 = current_index)]]

\* the body of analyze_line(line), with handle_critical_error / display_error
Analyze(line) ==
    /\ context_lines' = PushContext(context_lines, line.text)
    /\ LET i == FirstMatch(line, 1) IN
       IF i = 0
       THEN UNCHANGED <<error_history, error_counts, last_panic, context_shown>>
       ELSE LET error_def == error_patterns[i]
                error_info == ErrorInfo(line, error_def)
            IN  /\ error_history' = Append(error_history, error_info)
                /\ error_counts' = CountCategory(error_counts, error_def.category)
                /\ context_shown' =
                      IF error_def.severity = "CRITICAL"
                      THEN ContextBlock(context_lines', error_info.line)
                      ELSE context_shown
                /\ last_panic' =
                      IF error_def.severity = "CRITICAL" /\ error_def.category = "PANIC"
                      THEN error_info
                      ELSE last_panic

\* analyze_line(line) on one of the first MaxLines lines
AnalyzeLine(line) ==
    /\ Len(context_lines) < MaxLines
    /\ Analyze(line)
    /\ UNCHANGED notClassifier

InitClassifier ==
    IdleClassifier /\ IdleReader /\ IdleStress /\ IdleRecovery /\ IdleRunAll
        /\ IdleStressRun /\ IdleTool /\ IdleRetry /\ IdleThreads
        /\ IdleHealth /\ IdleMonitor /\ IdleIsolate

NextClassifier == \E line \in LogLines : AnalyzeLine(line)

SpecClassifier == InitClassifier /\ [][NextClassifier]_vars

-----------------------------------------------------------------------------
(* StressTester: the four load profiles                                    *)
(*                                                                         *)
(* Time is counted in whole seconds.  A workload request takes at least    *)
(* one second of the model's clock and at most its timeout; a liveness     *)
(* probe takes between zero seconds and its timeout.                       *)

\* timeout=5.0 of a workload request
ReqTimeout == 5

\* timeout of is_device_alive
ProbeTimeout == 2

\* timeout=1 of the heap query of test_memory_exhaustion
HeapTimeout == 1

\* `while time.time() - rate_start < 10`
StageWindow == 10

\* `if current_rate > 20:  # Safety limit`
SafetyLimit == 20

\* What a request can come to: a response with a status code, or an
\* exception (timeout, connection error).
Replies == {"200", "201", "400", "413", "500", "raised"}

\* is_device_alive: GET /health answered 200
IsDeviceAlive(reply) == reply = "200"

\* Rates are fractions <<n, d>>: n requests in d seconds.
\* The rates run_all_tests asks of test_endpoint_endurance: 0.5, 1.0, 2.0
Rates == {<<1, 2>>, <<1, 1>>, <<2, 1>>}

\* the `acceleration` arguments of the model: 1.0, 1.5, 2.0
Accelerations == {<<1, 1>>, <<3, 2>>, <<2, 1>>}

\* current_rate = 0.5
StartRate == <<1, 2>>

\* current_rate *= acceleration
Accelerate(rate, acceleration) == <<rate[1] * acceleration[1], rate[2] * acceleration[2]>>

\* current_rate > 20
OverLimit(rate) == rate[1] > SafetyLimit * rate[2]

\* the least whole number of seconds that is at least d / n
CeilDiv(d, n) == (d + n - 1) \div n

\* the pause left out: the next request follows at once
RateLimit_no_sleep(req_start, t, rate) == t

\* "Rate limiting": elapsed = time.time() - req_start;
\* if elapsed < interval: time.sleep(interval - elapsed), with
\* interval = 1.0 / rate.  Gives the time after it.
RateLimit(req_start, t, rate) ==
    LET elapsed == t - req_start IN
    IF elapsed * rate[1] < rate[2]
    THEN req_start + CeilDiv(rate[2], rate[1])
    ELSE t

\* sizes of test_payload_bomb
sizes == <<100, 500, 1000, 2000, 5000, 10000, 20000, 50000>>

\* `if response.status_code in [200, 201, 400, 413]`
Handled == {"200", "201", "400", "413"}

\* ---- test_endpoint_endurance(endpoint, duration, requests_per_second)

StartEndurance(duration, rate) ==
    /\ test = "endpoint_endurance"
    /\ args = [duration |-> duration, requests_per_second |-> rate]
    /\ result = [total_requests |-> 0, successful_requests |-> 0,
                 failed_requests |-> 0, device_crashed |-> FALSE,
                 crash_after_seconds |-> "None", crash_after_requests |-> "None"]
    /\ local = [start_time |-> 0, req_start |-> 0]
    /\ now = 0
    /\ pc = "loop"
    /\ crash_declared = FALSE
    /\ consecutive_failures = 0

\* `while time.time() - start_time < duration:  req_start = time.time()`
EnduranceLoop ==
    /\ test = "endpoint_endurance" /\ pc = "loop"
    /\ IF now - local.start_time < args.duration
       THEN /\ local' = [local EXCEPT !.req_start = now]
            /\ pc' = "request"
       ELSE /\ pc' = "done"
            /\ UNCHANGED local
    /\ UNCHANGED <<test, args, now, result, crash_declared, consecutive_failures>>
    /\ UNCHANGED notStress

\* the request with an `except` branch that counts the failure only
EnduranceRequest_uncounted(reply, d) ==
    /\ test = "endpoint_endurance" /\ pc = "request"
    /\ now' = now + d
    /\ result' =
          IF reply = "raised"
          THEN [result EXCEPT !.failed_requests = @ + 1]
          ELSE IF reply = "200"
          THEN [result EXCEPT !.total_requests = @ + 1, !.successful_requests = @ + 1]
          ELSE [result EXCEPT !.total_requests = @ + 1, !.failed_requests = @ + 1]
    /\ pc' = IF reply = "raised" THEN "probe" ELSE "rate_limit"
    /\ UNCHANGED <<test, args, local, crash_declared, consecutive_failures>>
    /\ UNCHANGED notStress

\* the request of one iteration and the counting of its outcome
EnduranceRequest(reply, d) ==
    /\ test = "endpoint_endurance" /\ pc = "request"
    /\ now' = now + d
    /\ result' =
          IF reply = "raised"
          THEN [result EXCEPT !.total_requests = @ + 1, !.failed_requests = @ + 1]
          ELSE IF reply = "200"
          THEN [result EXCEPT !.total_requests = @ + 1, !.successful_requests = @ + 1]
          ELSE [result EXCEPT !.total_requests = @ + 1, !.failed_requests = @ + 1]
    /\ pc' = IF reply = "raised" THEN "probe" ELSE "rate_limit"
    /\ UNCHANGED <<test, args, local, crash_declared, consecutive_failures>>
    /\ UNCHANGED notStress

\* the probe without its `break`: the crash is recorded and the loop goes on
EnduranceProbe_no_break(reply, d) ==
    /\ test = "endpoint_endurance" /\ pc = "probe"
    /\ now' = now + d
    /\ IF IsDeviceAlive(reply)
       THEN /\ consecutive_failures' = 0
            /\ UNCHANGED <<result, crash_declared>>
       ELSE /\ consecutive_failures' = consecutive_failures + 1
            /\ result' = [result EXCEPT
                             !.device_crashed = TRUE,
                             !.crash_after_seconds = now' - local.start_time,
                             !.crash_after_requests = result.total_requests]
            /\ crash_declared' = TRUE
    /\ pc' = "rate_limit"
    /\ UNCHANGED <<test, args, local>>
    /\ UNCHANGED notStress

\* the probe with a threshold of two: the first failed probe is let pass
EnduranceProbe_second_chance(reply, d) ==
    /\ test = "endpoint_endurance" /\ pc = "probe"
    /\ now' = now + d
    /\ IF IsDeviceAlive(reply)
       THEN /\ consecutive_failures' = 0
            /\ pc' = "rate_limit"
            /\ UNCHANGED <<result, crash_declared>>
       ELSE /\ consecutive_failures' = consecutive_failures + 1
            /\ IF consecutive_failures' >= 2
               THEN /\ result' = [result EXCEPT
                                     !.device_crashed = TRUE,
                                     !.crash_after_seconds = now' - local.start_time,
                                     !.crash_after_requests = result.total_requests]
                    /\ crash_declared' = TRUE
                    /\ pc' = "done"
               ELSE /\ pc' = "rate_limit"
                    /\ UNCHANGED <<result, crash_declared>>
    /\ UNCHANGED <<test, args, local>>
    /\ UNCHANGED notStress

\* `if not self.is_device_alive(): ... break` after a request that raised
EnduranceProbe(reply, d) ==
    /\ test = "endpoint_endurance" /\ pc = "probe"
    /\ now' = now + d
    /\ IF IsDeviceAlive(reply)
       THEN /\ consecutive_failures' = 0
            /\ pc' = "rate_limit"
            /\ UNCHANGED <<result, crash_declared>>
       ELSE /\ consecutive_failures' = consecutive_failures + 1
            /\ result' = [result EXCEPT
                             !.device_crashed = TRUE,
                             !.crash_after_seconds = now' - local.start_time,
                             !.crash_after_requests = result.total_requests]
            /\ crash_declared' = TRUE
            /\ pc' = "done"
    /\ UNCHANGED <<test, args, local>>
    /\ UNCHANGED notStress

\* "Rate limiting" at the end of the iteration
EnduranceRateLimit ==
    /\ test = "endpoint_endurance" /\ pc = "rate_limit"
    /\ now' = RateLimit(local.req_start, now, args.requests_per_second)
    /\ pc' = "loop"
    /\ UNCHANGED <<test, args, result, local, crash_declared, consecutive_failures>>
    /\ UNCHANGED notStress

\* ---- test_concurrent_burst(endpoint, concurrent, burst_count)

StartBurst(concurrent, burst_count) ==
    /\ test = "concurrent_burst"
    /\ args = [concurrent |-> concurrent, burst_count |-> burst_count]
    /\ result = [successful_bursts |-> 0, failed_bursts |-> 0,
                 device_crashed |-> FALSE, crash_after_burst |-> "None"]
    /\ local = [bursts_started |-> 0]
    /\ now = 0
    /\ pc = "burst_loop"
    /\ crash_declared = FALSE
    /\ consecutive_failures = 0

\* `for burst_num in range(burst_count):` and the "Burst n/m..." message
BurstLoop ==
    /\ test = "concurrent_burst" /\ pc = "burst_loop"
    /\ IF local.bursts_started < args.burst_count
       THEN /\ local' = [local EXCEPT !.bursts_started = @ + 1]
            /\ pc' = "executor"
       ELSE /\ pc' = "done"
            /\ UNCHANGED local
    /\ UNCHANGED <<test, args, now, result, crash_declared, consecutive_failures>>
    /\ UNCHANGED notStress

\* `with concurrent.futures.ThreadPoolExecutor(max_workers=concurrent)`:
\* inside the function `concurrent` is the int parameter, not the module,
\* so the attribute lookup `concurrent.futures` raises AttributeError and
\* the exception leaves test_concurrent_burst.
BurstExecutor ==
    /\ test = "concurrent_burst" /\ pc = "executor"
    /\ pc' = "raised"
    /\ UNCHANGED <<test, args, now, result, local, crash_declared, consecutive_failures>>
    /\ UNCHANGED notStress

\* ---- test_memory_exhaustion(endpoint, acceleration)
\* The clock of this function counts from rate_start, and total_requests
\* stops counting at MaxRequests.

StartExhaustion(acceleration) ==
    /\ test = "memory_exhaustion"
    /\ args = [acceleration |-> acceleration]
    /\ result = [max_rate_achieved |-> <<0, 1>>, requests_before_crash |-> 0,
                 final_heap_size |-> "None"]
    \* issued: the rates at which a request has been sent so far (kept for
    \* the properties; the function has no such variable)
    /\ local = [current_rate |-> StartRate, total_requests |-> 0,
                rate_requests |-> 0, req_start |-> 0, issued |-> {}]
    /\ now = 0
    /\ pc = "stage"
    /\ crash_declared = FALSE
    /\ consecutive_failures = 0

\* `while True:` interval = 1.0 / current_rate; rate_start = time.time();
\* rate_requests = 0
ExhaustionStage ==
    /\ test = "memory_exhaustion" /\ pc = "stage"
    /\ now' = 0
    /\ local' = [local EXCEPT !.rate_requests = 0, !.req_start = 0]
    /\ pc' = "stage_loop"
    /\ UNCHANGED <<test, args, result, crash_declared, consecutive_failures>>
    /\ UNCHANGED notStress

\* `while time.time() - rate_start < 10:` and, when the window is over,
\* `current_rate *= acceleration; if current_rate > 20: ... break`
ExhaustionLoop ==
    /\ test = "memory_exhaustion" /\ pc = "stage_loop"
    /\ IF now < StageWindow
       THEN /\ local' = [local EXCEPT !.req_start = now,
                                       !.issued = @ \cup {local.current_rate}]
            /\ pc' = "request"
            /\ UNCHANGED result
       ELSE LET faster == Accelerate(local.current_rate, args.acceleration) IN
            /\ local' = [local EXCEPT !.current_rate = faster]
            /\ IF OverLimit(faster)
               THEN /\ result' = [result EXCEPT
                                     !.max_rate_achieved = faster,
                                     !.requests_before_crash = local.total_requests]
                    /\ pc' = "done"
               ELSE /\ pc' = "stage"
                    /\ UNCHANGED result
    /\ UNCHANGED <<test, args, now, crash_declared, consecutive_failures>>
    /\ UNCHANGED notStress

\* the request of one iteration; after a response, the heap query
\* (`heap` is what health.get('free_heap') gave, "None" when the query
\* raised and left final_heap_size alone)
ExhaustionRequest(reply, d, heap, dh) ==
    /\ test = "memory_exhaustion" /\ pc = "request"
    /\ IF reply = "raised"
       THEN /\ now' = now + d
            /\ pc' = "probe"
            /\ UNCHANGED <<local, result>>
       ELSE /\ now' = now + d + dh
            /\ local' = [local EXCEPT
                            !.total_requests = IF @ < MaxRequests THEN @ + 1 ELSE @,
                            !.rate_requests = @ + 1]
            /\ result' = IF heap = "None" THEN result
                         ELSE [result EXCEPT !.final_heap_size = heap]
            /\ pc' = "rate_limit"
    /\ UNCHANGED <<test, args, crash_declared, consecutive_failures>>
    /\ UNCHANGED notStress

\* `if not self.is_device_alive(): ... return result`
ExhaustionProbe(reply, d) ==
    /\ test = "memory_exhaustion" /\ pc = "probe"
    /\ now' = now + d
    /\ IF IsDeviceAlive(reply)
       THEN /\ consecutive_failures' = 0
            /\ pc' = "rate_limit"
            /\ UNCHANGED <<result, crash_declared>>
       ELSE /\ consecutive_failures' = consecutive_failures + 1
            /\ result' = [result EXCEPT
                             !.max_rate_achieved = local.current_rate,
                             !.requests_before_crash = local.total_requests]
            /\ crash_declared' = TRUE
            /\ pc' = "done"
    /\ UNCHANGED <<test, args, local>>
    /\ UNCHANGED notStress

\* "Rate limiting" at the end of the iteration
ExhaustionRateLimit ==
    /\ test = "memory_exhaustion" /\ pc = "rate_limit"
    /\ now' = RateLimit(local.req_start, now, local.current_rate)
    /\ pc' = "stage_loop"
    /\ UNCHANGED <<test, args, result, local, crash_declared, consecutive_failures>>
    /\ UNCHANGED notStress

\* ---- test_payload_bomb(endpoint)

\* status codes the device answers the POST with here, and "raised" for
\* a POST that raised (timeout, connection error)
PayloadReplies == {"200", "400", "500", "raised"}

\* local.sent is the list of POSTs issued so far: the size, what came
\* back, and what the liveness probe after it said ("none": no probe)
StartPayload ==
    /\ test = "payload_bomb"
    /\ args = <<>>
    /\ result = [max_payload_handled |-> 0, device_crashed |-> FALSE,
                 crash_at_size |-> "None"]
    /\ local = [index |-> 0, sent |-> <<>>]
    /\ now = 0
    /\ pc = "size_loop"
    /\ crash_declared = FALSE
    /\ consecutive_failures = 0

\* `for size in sizes:`
PayloadLoop ==
    /\ test = "payload_bomb" /\ pc = "size_loop"
    /\ IF local.index < Len(sizes)
       THEN /\ local' = [local EXCEPT !.index = @ + 1]
            /\ pc' = "request"
       ELSE /\ pc' = "done"
            /\ UNCHANGED local
    /\ UNCHANGED <<test, args, now, result, crash_declared, consecutive_failures>>
    /\ UNCHANGED notStress

\* the POST of one size; `time.sleep(2)` when it did not raise
PayloadRequest(reply) ==
    /\ test = "payload_bomb" /\ pc = "request"
    /\ local' = [local EXCEPT
                    !.sent = Append(@, [size |-> sizes[local.index],
                                        reply |-> reply, probe |-> "none"])]
    /\ IF reply = "raised"
       THEN /\ pc' = "probe"
            /\ UNCHANGED result
       ELSE /\ result' = IF reply \in Handled
                         THEN [result EXCEPT !.max_payload_handled = sizes[local.index]]
                         ELSE result
            /\ pc' = "size_loop"
    /\ UNCHANGED <<test, args, now, crash_declared, consecutive_failures>>
    /\ UNCHANGED notStress

\* the probe of a crashed device that sets the result but goes on with
\* the next size
PayloadProbe_no_break(reply) ==
    /\ test = "payload_bomb" /\ pc = "probe"
    /\ local' = [local EXCEPT
                    !.sent[Len(local.sent)].probe =
                        IF IsDeviceAlive(reply) THEN "alive" ELSE "dead"]
    /\ IF IsDeviceAlive(reply)
       THEN /\ consecutive_failures' = 0
            /\ UNCHANGED <<result, crash_declared>>
       ELSE /\ consecutive_failures' = consecutive_failures + 1
            /\ result' = [result EXCEPT
                             !.device_crashed = TRUE,
                             !.crash_at_size = sizes[local.index]]
            /\ crash_declared' = TRUE
    /\ pc' = "size_loop"
    /\ UNCHANGED <<test, args, now>>
    /\ UNCHANGED notStress

\* `if not self.is_device_alive(): ... break`, else `time.sleep(2)`
PayloadProbe(reply) ==
    /\ test = "payload_bomb" /\ pc = "probe"
    /\ local' = [local EXCEPT
                    !.sent[Len(local.sent)].probe =
                        IF IsDeviceAlive(reply) THEN "alive" ELSE "dead"]
    /\ IF IsDeviceAlive(reply)
       THEN /\ consecutive_failures' = 0
            /\ pc' = "size_loop"
            /\ UNCHANGED <<result, crash_declared>>
       ELSE /\ consecutive_failures' = consecutive_failures + 1
            /\ result' = [result EXCEPT
                             !.device_crashed = TRUE,
                             !.crash_at_size = sizes[local.index]]
            /\ crash_declared' = TRUE
            /\ pc' = "done"
    /\ UNCHANGED <<test, args, now>>
    /\ UNCHANGED notStress

\* ---- one call of one of the four test functions

InitProfiles ==
    /\ IdleReader /\ IdleClassifier /\ IdleRecovery /\ IdleRunAll
           /\ IdleStressRun /\ IdleTool /\ IdleRetry /\ IdleThreads
           /\ IdleHealth /\ IdleMonitor /\ IdleIsolate
    /\ \/ \E duration \in 1..MaxDuration, rate \in Rates : StartEndurance(duration, rate)
       \/ \E concurrent \in 1..3, burst_count \in 0..MaxBursts :
             StartBurst(concurrent, burst_count)
       \/ \E acceleration \in Accelerations : StartExhaustion(acceleration)
       \/ StartPayload

NextEndurance ==
    \/ EnduranceLoop
    \/ \E reply \in Replies, d \in 1..ReqTimeout : EnduranceRequest(reply, d)
    \/ \E reply \in Replies, d \in 0..ProbeTimeout : EnduranceProbe(reply, d)
    \/ EnduranceRateLimit

NextBurst ==
    \/ BurstLoop
    \/ BurstExecutor

NextExhaustion ==
    \/ ExhaustionStage
    \/ ExhaustionLoop
    \/ \E reply \in Replies, d \in 1..ReqTimeout,
          heap \in {"None", "free_heap"}, dh \in 0..HeapTimeout :
          ExhaustionRequest(reply, d, heap, dh)
    \/ \E reply \in Replies, d \in 0..ProbeTimeout : ExhaustionProbe(reply, d)
    \/ ExhaustionRateLimit

NextPayload ==
    \/ PayloadLoop
    \/ \E reply \in PayloadReplies : PayloadRequest(reply)
    \/ \E reply \in Replies : PayloadProbe(reply)

NextProfiles == NextEndurance \/ NextBurst \/ NextExhaustion \/ NextPayload

SpecProfiles == InitProfiles /\ [][NextProfiles]_vars

\* test_memory_exhaustion alone; the interpreter always runs the next
\* statement of the function
InitExhaustion ==
    /\ IdleReader /\ IdleClassifier /\ IdleRecovery /\ IdleRunAll
           /\ IdleStressRun /\ IdleTool /\ IdleRetry /\ IdleThreads
           /\ IdleHealth /\ IdleMonitor /\ IdleIsolate
    /\ \E acceleration \in Accelerations : StartExhaustion(acceleration)

SpecExhaustion ==
    InitExhaustion /\ [][NextExhaustion]_vars /\ WF_vars(NextExhaustion)

-----------------------------------------------------------------------------
(* wait_for_recovery.main                                                  *)
(*                                                                         *)
(* datetime.now() is wr_now, in whole seconds since the script started.    *)

\* `for i in range(5):` of the stability check
StabilityChecks == 5

\* timeout=2 of check_device
CheckTimeout == 2

\* check_device: GET /health answered 200
CheckDevice(reply) == reply = "200"

\* the for loop without `down_since = datetime.now()` on an unstable device
VerifyStability_no_restart(reply, d) ==
    /\ wr_pc = "verify"
    /\ wr_now + 1 + d <= MaxClock
    /\ wr_now' = wr_now + 1 + d
    /\ device_up' = CheckDevice(reply)
    /\ IF ~CheckDevice(reply)
       THEN /\ wr_pc' = "sleep"
            /\ UNCHANGED stable_checks
       ELSE /\ stable_checks' = stable_checks + 1
            /\ wr_pc' = IF stable_checks' = StabilityChecks THEN "exit" ELSE "verify"
    /\ UNCHANGED <<down_since, check_count, recoveries>>
    /\ UNCHANGED notRecovery

\* `check_count += 1; if check_device():` of the main loop; on success the
\* "Device is UP!" report with up_time and down_duration
MainCheck(reply, d) ==
    /\ wr_pc = "check"
    /\ wr_now + d <= MaxClock
    /\ wr_now' = wr_now + d
    /\ check_count' = check_count + 1
    /\ device_up' = CheckDevice(reply)
    /\ IF CheckDevice(reply)
       THEN LET up_time == wr_now'
                down_duration == up_time - down_since
            IN  /\ recoveries' =
                      Append(recoveries,
                             [down_since |-> down_since, up_time |-> up_time,
                              down_duration |-> down_duration])
                /\ stable_checks' = 0
                /\ wr_pc' = "verify"
       ELSE /\ wr_pc' = "sleep"
            /\ UNCHANGED <<recoveries, stable_checks>>
    /\ UNCHANGED down_since
    /\ UNCHANGED notRecovery

\* the for loop leaving with sys.exit(0) one stability check too early
VerifyStability_early(reply, d) ==
    /\ wr_pc = "verify"
    /\ wr_now + 1 + d <= MaxClock
    /\ wr_now' = wr_now + 1 + d
    /\ device_up' = CheckDevice(reply)
    /\ IF ~CheckDevice(reply)
       THEN /\ down_since' = wr_now'
            /\ wr_pc' = "sleep"
            /\ UNCHANGED stable_checks
       ELSE /\ stable_checks' = stable_checks + 1
            /\ wr_pc' = IF stable_checks' = StabilityChecks - 1 THEN "exit" ELSE "verify"
            /\ UNCHANGED down_since
    /\ UNCHANGED <<check_count, recoveries>>
    /\ UNCHANGED notRecovery

\* one round of `for i in range(5): time.sleep(1); if not check_device():`
\* and what follows the loop: sys.exit(0) when all five passed,
\* `down_since = datetime.now()` when one failed
VerifyStability(reply, d) ==
    /\ wr_pc = "verify"
    /\ wr_now + 1 + d <= MaxClock
    /\ wr_now' = wr_now + 1 + d
    /\ device_up' = CheckDevice(reply)
    /\ IF ~CheckDevice(reply)
       THEN /\ down_since' = wr_now'
            /\ wr_pc' = "sleep"
            /\ UNCHANGED stable_checks
       ELSE /\ stable_checks' = stable_checks + 1
            /\ wr_pc' = IF stable_checks' = StabilityChecks THEN "exit" ELSE "verify"
            /\ UNCHANGED down_since
    /\ UNCHANGED <<check_count, recoveries>>
    /\ UNCHANGED notRecovery

\* `time.sleep(2)` at the end of the main loop
MainSleep ==
    /\ wr_pc = "sleep"
    /\ wr_now + 2 <= MaxClock
    /\ wr_now' = wr_now + 2
    /\ wr_pc' = "check"
    /\ UNCHANGED <<down_since, check_count, stable_checks, recoveries, device_up>>
    /\ UNCHANGED notRecovery

\* `down_since = datetime.now(); check_count = 0`
StartRecovery ==
    /\ wr_pc = "check"
    /\ wr_now = 0
    /\ down_since = 0
    /\ check_count = 0
    /\ stable_checks = 0
    /\ recoveries = <<>>
    /\ device_up = FALSE

InitRecovery ==
    StartRecovery /\ IdleReader /\ IdleClassifier /\ IdleStress
        /\ IdleStressRun /\ IdleTool /\ IdleRetry /\ IdleRunAll
        /\ IdleThreads /\ IdleHealth /\ IdleMonitor /\ IdleIsolate

NextRecovery ==
    \/ \E reply \in Replies, d \in 0..CheckTimeout : MainCheck(reply, d)
    \/ \E reply \in Replies, d \in 0..CheckTimeout : VerifyStability(reply, d)
    \/ MainSleep

SpecRecovery == InitRecovery /\ [][NextRecovery]_vars

-----------------------------------------------------------------------------
(* StressTester.wait_for_device and run_all_tests                          *)

\* max_wait of wait_for_device, as run_all_tests calls it
max_wait == 30

\* `tests` of run_all_tests, in order
tests ==
    <<[test |-> "endpoint_endurance", endpoint |-> "/health",
       duration |-> 30, requests_per_second |-> <<2, 1>>],
      [test |-> "endpoint_endurance", endpoint |-> "/api/metrics",
       duration |-> 30, requests_per_second |-> <<1, 1>>],
      [test |-> "endpoint_endurance", endpoint |-> "/dashboard",
       duration |-> 20, requests_per_second |-> <<1, 2>>],
      [test |-> "concurrent_burst", endpoint |-> "/health",
       concurrent |-> 3, burst_count |-> 5],
      [test |-> "concurrent_burst", endpoint |-> "/api/metrics",
       concurrent |-> 2, burst_count |-> 5],
      [test |-> "memory_exhaustion", endpoint |-> "/api/metrics",
       acceleration |-> <<3, 2>>],
      [test |-> "payload_bomb", endpoint |-> "/api/config"]>>

\* What a call of a test function comes to, as run_all_tests sees it:
\* `raised` when an exception left the function, else the truth value of
\* result.get('device_crashed') and whether a crash was declared.
\* test_memory_exhaustion puts no 'device_crashed' key in its result.
TestOutcomes(t) ==
    CASE t.test = "endpoint_endurance" ->
            {[raised |-> FALSE, device_crashed |-> c, crash_declared |-> c] :
                c \in BOOLEAN}
      [] t.test = "concurrent_burst" ->
            IF t.burst_count > 0
            THEN {[raised |-> TRUE, device_crashed |-> FALSE, crash_declared |-> FALSE]}
            ELSE {[raised |-> FALSE, device_crashed |-> FALSE, crash_declared |-> FALSE]}
      [] t.test = "memory_exhaustion" ->
            {[raised |-> FALSE, device_crashed |-> FALSE, crash_declared |-> c] :
                c \in BOOLEAN}
      [] t.test = "payload_bomb" ->
            {[raised |-> FALSE, device_crashed |-> c, crash_declared |-> c] :
                c \in BOOLEAN}

\* the outcome of the profile call that SpecProfiles runs, once it is over
ProfileOutcome ==
    [raised |-> pc = "raised",
     device_crashed |-> IF test = "memory_exhaustion" THEN FALSE
                        ELSE result.device_crashed,
     crash_declared |-> crash_declared]

\* the `if not self.wait_for_device(): ... break` without its break
WaitLoop_no_break ==
    /\ ra_pc = "wait_loop"
    /\ IF wait_elapsed < max_wait
       THEN /\ ra_pc' = "wait_probe"
            /\ UNCHANGED wait_result
       ELSE /\ wait_result' = "False"
            /\ ra_pc' = "next_test"
    /\ UNCHANGED <<ra_index, results, wait_elapsed, wait_alive>>
    /\ UNCHANGED notRunAll

\* the loop body without `if result.get('device_crashed'):
\* self.wait_for_device()`: the next test starts after the 5 s pause
RunTest_no_wait ==
    /\ ra_pc = "next_test"
    /\ IF ra_index = Len(tests)
       THEN /\ ra_pc' = "returned"
            /\ UNCHANGED <<ra_index, results>>
       ELSE /\ ra_index' = ra_index + 1
            /\ \E outcome \in TestOutcomes(tests[ra_index + 1]) :
                  IF outcome.raised
                  THEN /\ ra_pc' = "raised"
                       /\ UNCHANGED results
                  ELSE /\ results' =
                             Append(results,
                                    [test |-> tests[ra_index + 1].test,
                                     device_crashed |-> outcome.device_crashed,
                                     crash_declared |-> outcome.crash_declared,
                                     timestamp |-> "isoformat"])
                       /\ ra_pc' = "next_test"
    /\ UNCHANGED <<wait_elapsed, wait_result, wait_alive>>
    /\ UNCHANGED notRunAll

\* `for test_name, test_func in tests:` -- when the list is over,
\* `return self.results`; else `result = test_func(); ...
\* self.results.append(result)`, then `start = time.time()` of
\* wait_for_device when the device crashed, `time.sleep(5)` when not
RunTest ==
    /\ ra_pc = "next_test"
    /\ IF ra_index = Len(tests)
       THEN /\ ra_pc' = "returned"
            /\ UNCHANGED <<ra_index, results, wait_elapsed, wait_result, wait_alive>>
       ELSE /\ ra_index' = ra_index + 1
            /\ \E outcome \in TestOutcomes(tests[ra_index + 1]) :
                  IF outcome.raised
                  THEN /\ ra_pc' = "raised"
                       /\ UNCHANGED <<results, wait_elapsed, wait_result, wait_alive>>
                  ELSE /\ results' =
                             Append(results,
                                    [test |-> tests[ra_index + 1].test,
                                     device_crashed |-> outcome.device_crashed,
                                     crash_declared |-> outcome.crash_declared,
                                     timestamp |-> "isoformat"])
                       /\ IF outcome.device_crashed
                          THEN /\ ra_pc' = "wait_loop"
                               /\ wait_elapsed' = 0
                               /\ wait_result' = "None"
                               /\ wait_alive' = "None"
                          ELSE /\ ra_pc' = "next_test"
                               /\ UNCHANGED <<wait_elapsed, wait_result, wait_alive>>
    /\ UNCHANGED notRunAll

\* `while time.time() - start < max_wait:`; when the time is over
\* wait_for_device returns False and run_all_tests breaks out of its loop
WaitLoop ==
    /\ ra_pc = "wait_loop"
    /\ IF wait_elapsed < max_wait
       THEN /\ ra_pc' = "wait_probe"
            /\ UNCHANGED wait_result
       ELSE /\ wait_result' = "False"
            /\ ra_pc' = "returned"
    /\ UNCHANGED <<ra_index, results, wait_elapsed, wait_alive>>
    /\ UNCHANGED notRunAll

\* `if self.is_device_alive(): return True`; run_all_tests then sleeps 10 s
\* and goes on with the next test
WaitProbe(reply, d) ==
    /\ ra_pc = "wait_probe"
    /\ wait_elapsed' = wait_elapsed + d
    /\ IF IsDeviceAlive(reply)
       THEN /\ wait_alive' = "True"
            /\ wait_result' = "True"
            /\ ra_pc' = "next_test"
       ELSE /\ wait_alive' = "False"
            /\ ra_pc' = "wait_sleep"
            /\ UNCHANGED wait_result
    /\ UNCHANGED <<ra_index, results>>
    /\ UNCHANGED notRunAll

\* `time.sleep(1)`
WaitSleep ==
    /\ ra_pc = "wait_sleep"
    /\ wait_elapsed' = wait_elapsed + 1
    /\ ra_pc' = "wait_loop"
    /\ UNCHANGED <<ra_index, results, wait_result, wait_alive>>
    /\ UNCHANGED notRunAll

\* main (without --test): `if not tester.is_device_alive(): ... return`,
\* else `tester.run_all_tests()`
MainProbe(reply) ==
    /\ ra_pc = "main_probe"
    /\ IF IsDeviceAlive(reply)
       THEN /\ wait_alive' = "True"
            /\ ra_pc' = "next_test"
       ELSE /\ wait_alive' = "False"
            /\ ra_pc' = "not_responding"
    /\ UNCHANGED <<ra_index, results, wait_elapsed, wait_result>>
    /\ UNCHANGED notRunAll

\* main has created the StressTester
StartRunAll ==
    /\ ra_pc = "main_probe"
    /\ ra_index = 0
    /\ results = <<>>
    /\ wait_elapsed = 0
    /\ wait_result = "None"
    /\ wait_alive = "None"

InitRunAll ==
    StartRunAll /\ IdleReader /\ IdleClassifier /\ IdleStress
        /\ IdleStressRun /\ IdleTool /\ IdleRetry /\ IdleRecovery
        /\ IdleThreads /\ IdleHealth /\ IdleMonitor /\ IdleIsolate

NextRunAll ==
    \/ \E reply \in Replies : MainProbe(reply)
    \/ RunTest
    \/ WaitLoop
    \/ \E reply \in Replies, d \in 0..ProbeTimeout : WaitProbe(reply, d)
    \/ WaitSleep

\* the interpreter always runs the next statement of run_all_tests
SpecRunAll == InitRunAll /\ [][NextRunAll]_vars /\ WF_vars(NextRunAll)

-----------------------------------------------------------------------------
(* stress_test: one call of make_concurrent_requests                       *)
(*                                                                         *)
(* `stats[k] += 1` is a read of stats[k], an addition and a store; the     *)
(* request threads take no lock, so another thread may run between the     *)
(* read and the store.                                                     *)

\* `endpoints` of make_concurrent_requests
endpoints ==
    <<"/health", "/api/metrics", "/api/system", "/api/config", "/",
      "/api/network/status">>

\* the threads of the burst that are followed, one per endpoint from the
\* front of the list
Threads == 1..MaxThreads

\* `t = threading.Thread(target=single_request, args=(endpoint,));
\* t.start(); threads.append(t)`
StartThread ==
    /\ th_started < MaxThreads
    /\ th_started' = th_started + 1
    /\ th_pc' = [th_pc EXCEPT ![th_started + 1] = "get"]
    /\ UNCHANGED <<stats, th_reply, th_loaded, th_joined>>
    /\ UNCHANGED notThreads

\* `response = requests.get(base_url + endpoint, timeout=2)`
SingleRequestGet(t, reply) ==
    /\ th_pc[t] = "get"
    /\ th_reply' = [th_reply EXCEPT ![t] = reply]
    /\ th_pc' = [th_pc EXCEPT ![t] = "load_requests"]
    /\ UNCHANGED <<stats, th_loaded, th_started, th_joined>>
    /\ UNCHANGED notThreads

\* the counter a thread is at in single_request
CounterAt(t) ==
    CASE th_pc[t] \in {"load_requests", "store_requests"} -> "requests"
      [] th_pc[t] \in {"load_successes", "store_successes"} -> "successes"
      [] th_pc[t] \in {"load_failures", "store_failures"} -> "failures"

\* the read of `stats[k] += 1`
LoadCounter(t) ==
    /\ th_pc[t] \in {"load_requests", "load_successes", "load_failures"}
    /\ th_loaded' = [th_loaded EXCEPT ![t] = stats[CounterAt(t)] + 1]
    /\ th_pc' = [th_pc EXCEPT ![t] =
                    CASE th_pc[t] = "load_requests" -> "store_requests"
                      [] th_pc[t] = "load_successes" -> "store_successes"
                      [] th_pc[t] = "load_failures" -> "store_failures"]
    /\ UNCHANGED <<stats, th_reply, th_started, th_joined>>
    /\ UNCHANGED notThreads

\* the store of `stats[k] += 1`, and the branch on response.status_code
\* (`except` for a request that raised) that follows the requests counter
StoreCounter(t) ==
    /\ th_pc[t] \in {"store_requests", "store_successes", "store_failures"}
    /\ stats' = [stats EXCEPT ![CounterAt(t)] = th_loaded[t]]
    /\ th_pc' = [th_pc EXCEPT ![t] =
                    CASE th_pc[t] = "store_requests" ->
                            IF th_reply[t] = "200" THEN "load_successes"
                            ELSE "load_failures"
                      [] th_pc[t] = "store_successes" -> "store_last_success"
                      [] th_pc[t] = "store_failures" -> "done"]
    /\ UNCHANGED <<th_reply, th_loaded, th_started, th_joined>>
    /\ UNCHANGED notThreads

\* `stats['last_success'] = time.time()`: the thread that wrote it last
\* stands for the time
StoreLastSuccess(t) ==
    /\ th_pc[t] = "store_last_success"
    /\ stats' = [stats EXCEPT !["last_success"] = t]
    /\ th_pc' = [th_pc EXCEPT ![t] = "done"]
    /\ UNCHANGED <<th_reply, th_loaded, th_started, th_joined>>
    /\ UNCHANGED notThreads

\* `for t in threads: t.join(timeout=3)`: the thread has ended or the
\* three seconds are over
JoinThread ==
    /\ th_started = MaxThreads
    /\ th_joined < MaxThreads
    /\ th_joined' = th_joined + 1
    /\ UNCHANGED <<stats, th_pc, th_reply, th_loaded, th_started>>
    /\ UNCHANGED notThreads

\* `stats = {...}` of stress_test and the start of the burst
StartThreads ==
    /\ stats = [k \in {"requests", "successes", "failures", "last_success"} |-> 0]
    /\ th_pc = [t \in Threads |-> "unstarted"]
    /\ th_reply = [t \in Threads |-> "None"]
    /\ th_loaded = [t \in Threads |-> 0]
    /\ th_started = 0
    /\ th_joined = 0

InitThreads ==
    StartThreads /\ IdleReader /\ IdleClassifier /\ IdleStress
        /\ IdleStressRun /\ IdleTool /\ IdleRetry /\ IdleRecovery
        /\ IdleRunAll /\ IdleHealth /\ IdleMonitor /\ IdleIsolate

NextThreads ==
    \/ StartThread
    \/ \E t \in Threads, reply \in Replies : SingleRequestGet(t, reply)
    \/ \E t \in Threads : LoadCounter(t)
    \/ \E t \in Threads : StoreCounter(t)
    \/ \E t \in Threads : StoreLastSuccess(t)
    \/ JoinThread

SpecThreads == InitThreads /\ [][NextThreads]_vars

-----------------------------------------------------------------------------
(* DeviceHealthMonitor: start(), monitor_loop in its thread, stop()        *)

\* append to a deque(maxlen=n)
DequeAppend(q, x, n) ==
    IF Len(q) < n THEN Append(q, x) ELSE Append(SubSeq(q, 2, Len(q)), x)

\* a counter that stops counting at MaxSamples
CountUp(n) == IF n < MaxSamples THEN n + 1 ELSE n

\* start(): the thread is created and started; it has not yet run the
\* first statement of monitor_loop
MonitorStart ==
    /\ hm_main = "created"
    /\ hm_main' = "started"
    /\ hm_thread' = "entry"
    /\ UNCHANGED <<running, total_requests, failed_requests, errors>>
    /\ UNCHANGED notHealth

\* stop(): `self.running = False`
StopClear ==
    /\ hm_main = "started"
    /\ running' = FALSE
    /\ hm_main' = "join"
    /\ UNCHANGED <<hm_thread, total_requests, failed_requests, errors>>
    /\ UNCHANGED notHealth

\* stop(): `self.thread.join()` returns when the thread has ended
StopJoin ==
    /\ hm_main = "join"
    /\ hm_thread = "exited"
    /\ hm_main' = "stopped"
    /\ UNCHANGED <<running, hm_thread, total_requests, failed_requests, errors>>
    /\ UNCHANGED notHealth

\* monitor_loop: `self.running = True`
LoopSetRunning ==
    /\ hm_thread = "entry"
    /\ running' = TRUE
    /\ hm_thread' = "check"
    /\ UNCHANGED <<hm_main, total_requests, failed_requests, errors>>
    /\ UNCHANGED notHealth

\* monitor_loop: `while self.running:`
LoopCheck ==
    /\ hm_thread = "check"
    /\ hm_thread' = IF running THEN "collect" ELSE "exited"
    /\ UNCHANGED <<running, hm_main, total_requests, failed_requests, errors>>
    /\ UNCHANGED notHealth

\* collect_sample: a 200 answer counts in total_requests, anything else
\* goes through handle_error and counts in failed_requests
CollectSample(reply) ==
    /\ hm_thread = "collect"
    /\ IF reply = "200"
       THEN /\ total_requests' = CountUp(total_requests)
            /\ errors' = DequeAppend(errors, 0, MaxSamples)
            /\ UNCHANGED failed_requests
       ELSE /\ failed_requests' = CountUp(failed_requests)
            /\ errors' = DequeAppend(errors, 1, MaxSamples)
            /\ UNCHANGED total_requests
    /\ hm_thread' = "sleep"
    /\ UNCHANGED <<running, hm_main>>
    /\ UNCHANGED notHealth

\* monitor_loop: `time.sleep(self.interval)`
LoopSleep ==
    /\ hm_thread = "sleep"
    /\ hm_thread' = "check"
    /\ UNCHANGED <<running, hm_main, total_requests, failed_requests, errors>>
    /\ UNCHANGED notHealth

\* DeviceHealthMonitor.__init__
StartHealth ==
    /\ running = FALSE
    /\ hm_thread = "unstarted"
    /\ hm_main = "created"
    /\ total_requests = 0
    /\ failed_requests = 0
    /\ errors = <<>>

InitHealth ==
    StartHealth /\ IdleReader /\ IdleClassifier /\ IdleStress
        /\ IdleStressRun /\ IdleTool /\ IdleRetry /\ IdleRecovery
        /\ IdleRunAll /\ IdleThreads /\ IdleMonitor /\ IdleIsolate

\* the main thread: start(), later stop()
HealthMain == MonitorStart \/ StopClear \/ StopJoin

\* the monitor thread
HealthThread ==
    \/ LoopSetRunning
    \/ LoopCheck
    \/ \E reply \in Replies : CollectSample(reply)
    \/ LoopSleep

NextHealth == HealthMain \/ HealthThread

\* both threads are scheduled again and again
SpecHealth ==
    InitHealth /\ [][NextHealth]_vars /\ WF_vars(HealthMain) /\ WF_vars(HealthThread)

-----------------------------------------------------------------------------
(* monitor-telnet.py: main's connection loop and TelnetMonitor.run         *)
(*                                                                         *)
(* The reader thread that run starts is the reader of SpecReader; `input`  *)
(* is what the device sends over all connections, in order.                *)

\* `max_retries = 9999 if args.retry else 1`
max_retries == IF mn_retry THEN 9999 ELSE 1

\* `while retry_count < max_retries: if monitor.connect():` -- connect
\* succeeds and run starts the reader thread, or it fails and the attempt
\* is counted: `retry_count += 1`, then sleep and retry, or sys.exit(1)
MainConnect(ok) ==
    /\ mn_pc = "connect"
    /\ mn_connects < MaxConnects
    /\ mn_connects' = mn_connects + 1
    /\ IF ok
       THEN /\ connected' = TRUE
            /\ buffer' = <<>>
            /\ mn_pc' = "run"
            /\ UNCHANGED retry_count
       ELSE /\ retry_count' = retry_count + 1
            /\ mn_pc' = IF retry_count' < max_retries THEN "connect" ELSE "exit_1"
            /\ UNCHANGED <<connected, buffer>>
    /\ UNCHANGED <<input, pos, line_queue, mn_retry, mn_log, mn_lines, filters, mn_line>>
    /\ UNCHANGED notMonitorReader

\* what follows run: `if not args.retry: break`, else sleep and loop
AfterRun == IF mn_retry THEN "connect" ELSE "exit_0"

\* `with open(log_file, 'a') if log_file else None as f:` -- without a
\* log file `with None` raises TypeError; `finally: self.disconnect()`
\* runs and the exception leaves run and main
RunEnter ==
    /\ mn_pc = "run"
    /\ IF mn_log
       THEN /\ mn_pc' = "display"
            /\ UNCHANGED connected
       ELSE /\ connected' = FALSE
            /\ mn_pc' = "raised"
    /\ UNCHANGED <<input, pos, buffer, line_queue>>
    /\ UNCHANGED <<mn_retry, mn_log, retry_count, mn_connects, mn_lines, filters, mn_line>>
    /\ UNCHANGED notMonitorReader

\* `line = self.line_queue.get(timeout=0.1); self.stats['lines'] += 1`
\* and the display of the line
DisplayGet ==
    /\ mn_pc = "display"
    /\ line_queue # <<>>
    /\ line_queue' = Tail(line_queue)
    /\ mn_lines' = mn_lines + 1
    /\ UNCHANGED <<input, pos, buffer, connected>>
    /\ UNCHANGED <<mn_pc, mn_retry, mn_log, retry_count, mn_connects, filters, mn_line>>
    /\ UNCHANGED notMonitorReader

\* `while self.connected or not self.line_queue.empty()` is over:
\* `finally: self.disconnect()`, and run returns
DisplayEnd ==
    /\ mn_pc = "display"
    /\ ~connected /\ line_queue = <<>>
    /\ mn_pc' = AfterRun
    /\ UNCHANGED readerVars
    /\ UNCHANGED <<mn_retry, mn_log, retry_count, mn_connects, mn_lines, filters, mn_line>>
    /\ UNCHANGED notMonitorReader

\* Ctrl+C in the display loop: `except KeyboardInterrupt`, then
\* `finally: self.disconnect()`, and run returns
DisplayInterrupt ==
    /\ mn_pc = "display"
    /\ connected' = FALSE
    /\ mn_pc' = AfterRun
    /\ UNCHANGED <<input, pos, buffer, line_queue>>
    /\ UNCHANGED <<mn_retry, mn_log, retry_count, mn_connects, mn_lines, filters, mn_line>>
    /\ UNCHANGED notMonitorReader

\* main has parsed its arguments and created the monitor
StartMonitor ==
    /\ input \in SeqsUpTo(Bytes, MaxStreamLen)
    /\ pos = 0
    /\ buffer = <<>>
    /\ line_queue = <<>>
    /\ connected = FALSE
    /\ mn_pc = "connect"
    /\ mn_retry \in BOOLEAN
    /\ mn_log \in BOOLEAN
    /\ retry_count = 0
    /\ mn_connects = 0
    /\ mn_lines = 0
    /\ filters = {}
    /\ mn_line = NoLine

InitMonitor ==
    StartMonitor /\ IdleClassifier /\ IdleStress /\ IdleRecovery
        /\ IdleStressRun /\ IdleTool /\ IdleRetry /\ IdleRunAll
        /\ IdleThreads /\ IdleHealth /\ IdleIsolate

NextMonitor ==
    \/ \E ok \in BOOLEAN : MainConnect(ok)
    \/ RunEnter
    \/ DisplayGet
    \/ DisplayEnd
    \/ DisplayInterrupt
    \/ NextReader

SpecMonitor == InitMonitor /\ [][NextMonitor]_vars

-----------------------------------------------------------------------------
(* isolate_freeze.main                                                     *)

\* `tests` of main, in order
iso_tests ==
    <<"test_1_single_sequential", "test_2_rapid_sequential",
      "test_3_concurrent_limited", "test_4_concurrent_increasing",
      "test_5_different_endpoints", "test_6_memory_monitoring",
      "test_7_connection_limits">>

\* the initial health check that lets every answer pass
IsoInitialCheck_ignored(reply) ==
    /\ iso_pc = "initial_check"
    /\ iso_health' = IF reply = "200" THEN "True" ELSE "False"
    /\ iso_pc' = "run_test"
    /\ UNCHANGED <<iso_index, iso_failed, freeze_detected, iso_summary>>
    /\ UNCHANGED notIsolate

\* `if not isolator.check_health(): ... return`
IsoInitialCheck(reply) ==
    /\ iso_pc = "initial_check"
    /\ iso_health' = IF reply = "200" THEN "True" ELSE "False"
    /\ iso_pc' = IF reply = "200" THEN "run_test" ELSE "not_responding"
    /\ UNCHANGED <<iso_index, iso_failed, freeze_detected, iso_summary>>
    /\ UNCHANGED notIsolate

\* `for test_func in tests: if not test_func():`; the `else` of the for
\* loop when the list is over
IsoRunTest(passed) ==
    /\ iso_pc = "run_test"
    /\ IF iso_index = Len(iso_tests)
       THEN /\ iso_pc' = "summary"
            /\ UNCHANGED <<iso_index, iso_failed>>
       ELSE /\ iso_index' = iso_index + 1
            /\ IF passed
               THEN /\ iso_pc' = "between_check"
                    /\ UNCHANGED iso_failed
               ELSE /\ iso_pc' = "recovery_check"
                    /\ iso_failed' = iso_index + 1
    /\ UNCHANGED <<iso_health, freeze_detected, iso_summary>>
    /\ UNCHANGED notIsolate

\* after a test that returned False: `time.sleep(30)`, check_health, break
IsoRecoveryCheck(reply) ==
    /\ iso_pc = "recovery_check"
    /\ iso_health' = IF reply = "200" THEN "True" ELSE "False"
    /\ iso_pc' = "summary"
    /\ UNCHANGED <<iso_index, iso_failed, freeze_detected, iso_summary>>
    /\ UNCHANGED notIsolate

\* after a test that passed: `time.sleep(2)`,
\* `if not isolator.check_health(): ... break`
IsoBetweenCheck(reply) ==
    /\ iso_pc = "between_check"
    /\ iso_health' = IF reply = "200" THEN "True" ELSE "False"
    /\ iso_pc' = IF reply = "200" THEN "run_test" ELSE "summary"
    /\ UNCHANGED <<iso_index, iso_failed, freeze_detected, iso_summary>>
    /\ UNCHANGED notIsolate

\* the final summary: `if isolator.freeze_detected:`
IsoSummary ==
    /\ iso_pc = "summary"
    /\ iso_summary' = IF freeze_detected THEN "Device freeze was detected"
                      ELSE "No freezes detected"
    /\ iso_pc' = "done"
    /\ UNCHANGED <<iso_index, iso_health, iso_failed, freeze_detected>>
    /\ UNCHANGED notIsolate

\* FreezeIsolator.__init__
StartIsolate ==
    /\ iso_pc = "initial_check"
    /\ iso_index = 0
    /\ iso_health = "None"
    /\ iso_failed = 0
    /\ freeze_detected = FALSE
    /\ iso_summary = "None"

InitIsolate ==
    StartIsolate /\ IdleReader /\ IdleClassifier /\ IdleStress
        /\ IdleStressRun /\ IdleTool /\ IdleRetry /\ IdleRecovery
        /\ IdleRunAll /\ IdleThreads /\ IdleHealth /\ IdleMonitor

NextIsolate ==
    \/ \E reply \in Replies : IsoInitialCheck(reply)
    \/ \E passed \in BOOLEAN : IsoRunTest(passed)
    \/ \E reply \in Replies : IsoRecoveryCheck(reply)
    \/ \E reply \in Replies : IsoBetweenCheck(reply)
    \/ IsoSummary

SpecIsolate == InitIsolate /\ [][NextIsolate]_vars

\* the two test runners that begin with a liveness probe:
\* comprehensive_stress_test.main and isolate_freeze.main
InitRunners == InitRunAll \/ InitIsolate

NextRunners == NextRunAll \/ NextIsolate

SpecRunners == InitRunners /\ [][NextRunners]_vars


-----------------------------------------------------------------------------
(* StabilityDiagnostics.test_request_rate_limit                            *)
(* (tests/python/tests/test_stability_diagnostics.py)                      *)
(*                                                                         *)
(* One call of the function, on the variables of a test function call.     *)
(* Time is counted in whole seconds; max_rate is 1, so that the pause      *)
(* between two requests, 1.0 / max_rate, is one second.                    *)

\* self.timeout, `timeout: int = 5`
DiagTimeout == 5

\* `time.sleep(2)` before the crash check
CrashCheckDelay == 2

\* What self.session.get can come to: a response with a status code, or
\* an exception of the requests library.  ConnectTimeout is a subclass
\* of both Timeout and ConnectionError; ChunkedEncodingError (the
\* connection broke while the body was read) is a subclass of neither.
DiagReplies ==
    {"200", "500", "ReadTimeout", "ConnectTimeout", "ConnectionError",
     "ChunkedEncodingError"}

\* isinstance(e, requests.exceptions.Timeout)
IsTimeout(reply) == reply \in {"ReadTimeout", "ConnectTimeout"}

\* isinstance(e, requests.exceptions.ConnectionError)
IsConnectionError(reply) == reply \in {"ConnectionError", "ConnectTimeout"}

\* get_memory_stats: a dict when GET /health answered 200, else None
GetMemoryStats(reply) == IF reply = "200" THEN "stats" ELSE "None"

StartRateLimit(max_rate, duration) ==
    /\ test = "request_rate_limit"
    /\ args = [max_rate |-> max_rate, duration |-> duration]
    /\ result = [successful_requests |-> 0, failed_requests |-> 0,
                 timeouts |-> 0, connection_errors |-> 0,
                 crash_detected |-> FALSE]
    \* attempted: the calls of self.session.get made so far (kept for the
    \* properties; the function has no such variable)
    /\ local = [start_time |-> 0, attempted |-> 0]
    /\ now = 0
    /\ pc = "loop"
    /\ crash_declared = FALSE
    /\ consecutive_failures = 0

\* `while time.time() - start_time < duration:`
RateLimitLoop ==
    /\ test = "request_rate_limit" /\ pc = "loop"
    /\ pc' = IF now - local.start_time < args.duration THEN "request" ELSE "done"
    /\ UNCHANGED <<test, args, now, result, local, crash_declared,
                   consecutive_failures>>
    /\ UNCHANGED notStress

\* the `try` block of one iteration and its two `except` clauses; an
\* exception neither clause names leaves the function
RateLimitRequest(reply, d) ==
    /\ test = "request_rate_limit" /\ pc = "request"
    /\ now' = now + d
    /\ local' = [local EXCEPT !.attempted = @ + 1]
    /\ IF reply = "200"
       THEN /\ result' = [result EXCEPT !.successful_requests = @ + 1]
            /\ pc' = "sleep"
       ELSE IF reply = "500"
       THEN /\ result' = [result EXCEPT !.failed_requests = @ + 1]
            /\ pc' = "sleep"
       ELSE IF IsTimeout(reply)
       THEN /\ result' = [result EXCEPT !.timeouts = @ + 1]
            /\ pc' = "sleep"
       ELSE IF IsConnectionError(reply)
       THEN /\ result' = [result EXCEPT !.connection_errors = @ + 1]
            /\ pc' = "crash_check"
       ELSE /\ pc' = "raised"
            /\ UNCHANGED result
    /\ UNCHANGED <<test, args, crash_declared, consecutive_failures>>
    /\ UNCHANGED notStress

\* `time.sleep(2); if not self.get_memory_stats(): ... break`
RateLimitCrashCheck(reply, d) ==
    /\ test = "request_rate_limit" /\ pc = "crash_check"
    /\ now' = now + CrashCheckDelay + d
    /\ IF GetMemoryStats(reply) = "None"
       THEN /\ result' = [result EXCEPT !.crash_detected = TRUE]
            /\ pc' = "done"
       ELSE /\ pc' = "sleep"
            /\ UNCHANGED result
    /\ UNCHANGED <<test, args, local, crash_declared, consecutive_failures>>
    /\ UNCHANGED notStress

\* "Rate limit": time.sleep(interval), interval = 1.0 / max_rate
RateLimitSleep ==
    /\ test = "request_rate_limit" /\ pc = "sleep"
    /\ now' = now + CeilDiv(1, args.max_rate)
    /\ pc' = "loop"
    /\ UNCHANGED <<test, args, result, local, crash_declared,
                   consecutive_failures>>
    /\ UNCHANGED notStress

InitDiagnostics ==
    /\ IdleReader /\ IdleClassifier /\ IdleRecovery /\ IdleRunAll
           /\ IdleStressRun /\ IdleTool /\ IdleRetry /\ IdleThreads
           /\ IdleHealth /\ IdleMonitor /\ IdleIsolate
    /\ \E duration \in 1..MaxDuration : StartRateLimit(1, duration)

NextDiagnostics ==
    \/ RateLimitLoop
    \/ \E reply \in DiagReplies, d \in 1..DiagTimeout : RateLimitRequest(reply, d)
    \/ \E reply \in Replies, d \in 0..DiagTimeout : RateLimitCrashCheck(reply, d)
    \/ RateLimitSleep

SpecDiagnostics == InitDiagnostics /\ [][NextDiagnostics]_vars


-----------------------------------------------------------------------------
(* test_endpoint_endurance against an endpoint that always succeeds        *)
(*                                                                         *)
(* The same function on a finer clock: time.time() is counted in ticks of  *)
(* 10 ms, so that a request that is answered in 10 ms takes one tick.      *)
(* time.sleep returns after the time asked for or a little later.          *)

\* ticks of the clock in one second
TicksPerSecond == 100

\* the longest `duration` of the runs, in seconds
MaxStubSeconds == 10

\* the longest time the endpoint takes to answer, in ticks
MaxStubLatency == 1

\* the longest time time.sleep oversleeps, in ticks
MaxOvershoot == 1

\* the rates of run_all_tests as requests in ticks: 0.5, 1.0 and 2.0 per second
StubRates == {<<r[1], r[2] * TicksPerSecond>> : r \in Rates}

\* "Rate limiting" where time.sleep(interval - elapsed) oversleeps by j
EnduranceSleep(j) ==
    /\ test = "endpoint_endurance" /\ pc = "rate_limit"
    /\ LET t == RateLimit(local.req_start, now, args.requests_per_second) IN
       now' = IF t > now THEN t + j ELSE now
    /\ pc' = "loop"
    /\ UNCHANGED <<test, args, result, local, crash_declared, consecutive_failures>>
    /\ UNCHANGED notStress

InitEnduranceStub ==
    /\ IdleReader /\ IdleClassifier /\ IdleRecovery /\ IdleRunAll
           /\ IdleStressRun /\ IdleTool /\ IdleRetry /\ IdleThreads
           /\ IdleHealth /\ IdleMonitor /\ IdleIsolate
    /\ \E seconds \in 1..MaxStubSeconds, rate \in StubRates :
          StartEndurance(seconds * TicksPerSecond, rate)

NextEnduranceStub ==
    \/ EnduranceLoop
    \/ \E d \in 1..MaxStubLatency : EnduranceRequest("200", d)
    \/ \E j \in 0..MaxOvershoot : EnduranceSleep(j)

SpecEnduranceStub == InitEnduranceStub /\ [][NextEnduranceStub]_vars


-----------------------------------------------------------------------------
(* monitor-errors.py: ErrorMonitor in the display loop of run              *)
(*                                                                         *)
(* run was given a log file and is in its display loop; every line it      *)
(* takes is counted in stats['lines'] and passed to format_line, which     *)
(* calls analyze_line.  The first QuietLines lines of the log match no     *)
(* rule, so that the context buffer is nearly full when the lines that     *)
(* matter arrive; the MaxLines lines after them are any lines.             *)

\* a line that no rule matches
QuietLine == CHOOSE l \in LogLines : l.has = {}

\* the lines of the quiet start of the log: one less than the buffer holds
QuietLines == context_size * 2 - 1

\* the patterns given to add_filter
FilterPatterns == {"FPS", "wifi", "^$"}

\* filter_pattern.search(line): the pattern occurs in the line's text
FilterSearch(filter_pattern, line) ==
    \/ filter_pattern = "FPS" /\ line.text = "I (312) main: FPS: 30.0 (avg: 29.5)"
    \/ filter_pattern = "wifi" /\ line.text = "W (900) wifi: wifi disconnect, reason 8"
    \/ filter_pattern = "^$" /\ line.text = ""

\* should_display: no filter at all, or some filter matches the line
should_display(line) ==
    filters = {} \/ \E filter_pattern \in filters : FilterSearch(filter_pattern, line)

\* `self.stats['lines'] += 1 ... if self.should_display(line):
\*  formatted = self.format_line(line)`
FormatLine(line) ==
    /\ mn_pc = "display"
    /\ mn_lines < QuietLines + MaxLines
    /\ mn_lines < QuietLines => line = QuietLine
    /\ mn_lines' = mn_lines + 1
    /\ mn_line' = line
    /\ should_display(line)
    /\ Analyze(line)
    /\ UNCHANGED readerVars
    /\ UNCHANGED <<mn_pc, mn_retry, mn_log, retry_count, mn_connects, filters>>
    /\ UNCHANGED notErrorMonitor

\* the loop body of run for a line that no filter matches: it is counted
\* and parsed for statistics, and neither formatted nor printed
SkipLine(line) ==
    /\ mn_pc = "display"
    /\ mn_lines < QuietLines + MaxLines
    /\ mn_lines < QuietLines => line = QuietLine
    /\ mn_lines' = mn_lines + 1
    /\ mn_line' = line
    /\ ~should_display(line)
    /\ UNCHANGED readerVars
    /\ UNCHANGED classifierVars
    /\ UNCHANGED <<mn_pc, mn_retry, mn_log, retry_count, mn_connects, filters>>
    /\ UNCHANGED notErrorMonitor

\* main has connected and run(args.output) has entered its display loop
StartErrorMonitor ==
    /\ input = <<>>
    /\ pos = 0
    /\ buffer = <<>>
    /\ line_queue = <<>>
    /\ connected = TRUE
    /\ mn_pc = "display"
    /\ mn_retry = FALSE
    /\ mn_log = TRUE
    /\ retry_count = 0
    /\ mn_connects = 1
    /\ mn_lines = 0
    /\ filters \in SUBSET FilterPatterns
    /\ mn_line = NoLine

InitErrorMonitor ==
    StartErrorMonitor /\ IdleClassifier /\ IdleStress /\ IdleRecovery
        /\ IdleStressRun /\ IdleTool /\ IdleRetry /\ IdleRunAll
        /\ IdleThreads /\ IdleHealth /\ IdleIsolate

NextErrorMonitor ==
    \/ \E line \in LogLines : FormatLine(line)
    \/ \E line \in LogLines : SkipLine(line)

SpecErrorMonitor == InitErrorMonitor /\ [][NextErrorMonitor]_vars


-----------------------------------------------------------------------------
(* stress_test: the main loop of bursts and the status_monitor thread      *)
(*                                                                         *)
(* The clock counts half seconds since start_time.  A thread that waits    *)
(* (for a burst to end, in time.sleep) goes on when its wait is over; time *)
(* passes only while every thread waits.  Of `stats` the two entries the   *)
(* status monitor and the main loop work with are kept here; the counters  *)
(* of the request threads are those of SpecThreads.                        *)

\* half seconds in s seconds
HalfSeconds(s) == 2 * s

\* `time.sleep(5)` of status_monitor, in seconds
MonitorSleep == 5

\* `if since_last > 10`, in seconds
FreezeAfter == 10

\* `requests.get(base_url + endpoint, timeout=2)`, in seconds
GetTimeout == 2

\* `requests.get(f"{base_url}/health", timeout=5)` of the final check
FinalTimeout == 5

\* the longest `duration` of a run, in seconds
MaxRunSeconds == 16

\* all but the variables of stress_test
notStressRun ==
    <<readerVars, classifierVars, stressVars, recoveryVars, runAllVars,
      healthVars, monitorVars, isolateVars, toolVars, retryVars>>

\* the request threads' own variables
requestThreadVars == <<th_pc, th_reply, th_loaded, th_started, th_joined>>

\* `while time.time() - start_time < duration: time.sleep(5)`; the sleep
\* may last up to MaxOvershoot half seconds longer
StatusLoop(j) ==
    /\ sm_pc = "loop"
    /\ IF st_now < st_duration
       THEN /\ sm_pc' = "sleep"
            /\ sm_wake' = st_now + HalfSeconds(MonitorSleep) + j
       ELSE /\ sm_pc' = "done"
            /\ UNCHANGED sm_wake
    /\ UNCHANGED <<stats, st_pc, st_now, st_wake, st_duration>>
    /\ UNCHANGED requestThreadVars
    /\ UNCHANGED notStressRun

\* the report with the test `>=` for `>`
StatusReport_at_ten ==
    /\ sm_pc = "sleep" /\ st_now >= sm_wake /\ st_pc # "done"
    /\ LET since_last == st_now - stats.last_success IN
       stats' = IF since_last >= HalfSeconds(FreezeAfter) /\ ~stats.freeze_detected
                THEN [stats EXCEPT !.freeze_detected = TRUE]
                ELSE stats
    /\ sm_pc' = "loop"
    /\ UNCHANGED <<st_pc, st_now, st_wake, st_duration, sm_wake>>
    /\ UNCHANGED requestThreadVars
    /\ UNCHANGED notStressRun

\* the status report after the sleep: `since_last = time.time() -
\* stats['last_success']` and `if since_last > 10 and not
\* stats['freeze_detected']: ... stats['freeze_detected'] = True`.
\* The thread is a daemon: it runs no more once the script has ended.
StatusReport ==
    /\ sm_pc = "sleep" /\ st_now >= sm_wake /\ st_pc # "done"
    /\ LET since_last == st_now - stats.last_success IN
       stats' = IF since_last > HalfSeconds(FreezeAfter) /\ ~stats.freeze_detected
                THEN [stats EXCEPT !.freeze_detected = TRUE]
                ELSE stats
    /\ sm_pc' = "loop"
    /\ UNCHANGED <<st_pc, st_now, st_wake, st_duration, sm_wake>>
    /\ UNCHANGED requestThreadVars
    /\ UNCHANGED notStressRun

\* `while time.time() - start_time < duration: make_concurrent_requests()`:
\* the burst is started and takes d half seconds, or the loop is over
RunLoop(d) ==
    /\ st_pc = "loop"
    /\ IF st_now < st_duration
       THEN /\ st_pc' = "burst"
            /\ st_wake' = st_now + d
       ELSE /\ st_pc' = "report"
            /\ UNCHANGED st_wake
    /\ UNCHANGED <<stats, st_now, st_duration, sm_pc, sm_wake>>
    /\ UNCHANGED requestThreadVars
    /\ UNCHANGED notStressRun

\* the burst is over: some request of it was answered 200 (`stats
\* ['last_success'] = time.time()`) or none was; `time.sleep(0.5)` follows
BurstEnd(success) ==
    /\ st_pc = "burst" /\ st_now >= st_wake
    /\ stats' = IF success THEN [stats EXCEPT !.last_success = st_now] ELSE stats
    /\ st_pc' = "pause"
    /\ st_wake' = st_now + 1
    /\ UNCHANGED <<st_now, st_duration, sm_pc, sm_wake>>
    /\ UNCHANGED requestThreadVars
    /\ UNCHANGED notStressRun

\* `time.sleep(0.5)  # Brief pause between bursts` is over
PauseEnd ==
    /\ st_pc = "pause" /\ st_now >= st_wake
    /\ st_pc' = "loop"
    /\ UNCHANGED <<stats, st_now, st_wake, st_duration, sm_pc, sm_wake>>
    /\ UNCHANGED requestThreadVars
    /\ UNCHANGED notStressRun

\* Ctrl+C in the loop: `except KeyboardInterrupt`
RunInterrupt ==
    /\ st_pc \in {"burst", "pause"}
    /\ st_pc' = "report"
    /\ UNCHANGED <<stats, st_now, st_wake, st_duration, sm_pc, sm_wake>>
    /\ UNCHANGED requestThreadVars
    /\ UNCHANGED notStressRun

\* "Final report" and the final health check, which takes d half seconds
FinalReport(d) ==
    /\ st_pc = "report"
    /\ st_pc' = "final_check"
    /\ st_wake' = st_now + d
    /\ UNCHANGED <<stats, st_now, st_duration, sm_pc, sm_wake>>
    /\ UNCHANGED requestThreadVars
    /\ UNCHANGED notStressRun

\* the final health check is over and stress_test returns
FinalCheck ==
    /\ st_pc = "final_check" /\ st_now >= st_wake
    /\ st_pc' = "done"
    /\ UNCHANGED <<stats, st_now, st_wake, st_duration, sm_pc, sm_wake>>
    /\ UNCHANGED requestThreadVars
    /\ UNCHANGED notStressRun

\* half a second passes while stress_test and status_monitor both wait
Tick ==
    /\ st_pc \in {"burst", "pause", "final_check"} /\ st_now < st_wake
    /\ sm_pc = "done" \/ (sm_pc = "sleep" /\ st_now < sm_wake)
    /\ st_now' = st_now + 1
    /\ UNCHANGED <<stats, st_pc, st_wake, st_duration, sm_pc, sm_wake>>
    /\ UNCHANGED requestThreadVars
    /\ UNCHANGED notStressRun

\* `start_time = time.time(); stats = {...}; monitor.start()`
StartStressRun(duration) ==
    /\ stats = [last_success |-> 0, freeze_detected |-> FALSE]
    /\ th_pc = <<>>
    /\ th_reply = <<>>
    /\ th_loaded = <<>>
    /\ th_started = 0
    /\ th_joined = 0
    /\ st_pc = "loop"
    /\ st_now = 0
    /\ st_wake = 0
    /\ st_duration = HalfSeconds(duration)
    /\ sm_pc = "loop"
    /\ sm_wake = 0

InitStressRun ==
    /\ IdleReader /\ IdleClassifier /\ IdleStress /\ IdleRecovery
           /\ IdleTool /\ IdleRetry /\ IdleRunAll /\ IdleHealth
           /\ IdleMonitor /\ IdleIsolate
    /\ \E duration \in 1..MaxRunSeconds : StartStressRun(duration)

NextStressRun ==
    \/ \E j \in 0..MaxOvershoot : StatusLoop(j)
    \/ StatusReport
    \/ \E d \in 0..HalfSeconds(GetTimeout) : RunLoop(d)
    \/ \E success \in BOOLEAN : BurstEnd(success)
    \/ PauseEnd
    \/ RunInterrupt
    \/ \E d \in 0..HalfSeconds(FinalTimeout) : FinalReport(d)
    \/ FinalCheck
    \/ Tick

SpecStressRun == InitStressRun /\ [][NextStressRun]_vars


-----------------------------------------------------------------------------
(* tests/tools/monitoring/telnet_monitor.py: TelnetMonitor.monitor         *)
(* (monitor_telnet of minimal_freeze_test.py splits its data the same way) *)
(*                                                                         *)
(* The loop runs on the variables of a reader: `input` is what the device  *)
(* sends, `pos` how much of it recv has returned, and line_queue the lines *)
(* handed to process_line (appended to log_queue in monitor_telnet), in    *)
(* order.  The function keeps no buffer between two reads.                 *)

\* recv(4096): the largest chunk one read returns
ToolRecvSize == 4096

\* data.decode('utf-8', errors='ignore') of one chunk: a lead byte followed
\* by its continuation byte is one character; a lead byte without its
\* continuation byte and a continuation byte without a lead byte are dropped
RECURSIVE DecodeIgnore(_)
DecodeIgnore(data) ==
    IF data = <<>> THEN <<>>
    ELSE IF Head(data) = "C3"
         THEN IF Len(data) >= 2 /\ data[2] = "A9"
              THEN <<"E9">> \o DecodeIgnore(SubSeq(data, 3, Len(data)))
              ELSE DecodeIgnore(Tail(data))
    ELSE IF Head(data) = "A9"
         THEN DecodeIgnore(Tail(data))
    ELSE <<Head(data)>> \o DecodeIgnore(Tail(data))

\* text.split('\n'): the pieces between the '\n' characters, the piece
\* after the last '\n' included
RECURSIVE SplitLF(_)
SplitLF(text) ==
    LET i == FirstLF(text, 1) IN
    IF i = 0 THEN <<text>>
    ELSE <<SubSeq(text, 1, i - 1)>> \o SplitLF(SubSeq(text, i + 1, Len(text)))

\* line.strip(): of the characters of the model only '\r' is white space
Strip(line) == StripCR(line)

\* `for line in lines: line = line.strip(); if not line: continue;
\* self.process_line(line)`: the lines handed on, after those of q
RECURSIVE HandOn(_, _)
HandOn(lines, q) ==
    IF lines = <<>> THEN q
    ELSE LET line == Strip(Head(lines)) IN
         HandOn(Tail(lines), IF line # <<>> THEN Append(q, line) ELSE q)

\* select says the socket is readable and recv returns n bytes of data
ToolRecvData(n) ==
    /\ connected
    /\ n >= 1 /\ n <= ToolRecvSize /\ pos + n <= Len(input)
    /\ LET data == SubSeq(input, pos + 1, pos + n) IN
       line_queue' = HandOn(SplitLF(DecodeIgnore(data)), line_queue)
    /\ pos' = pos + n
    /\ UNCHANGED <<input, buffer, connected>>
    /\ UNCHANGED notReader

\* select timed out after 0.1 s, or recv raised BlockingIOError: the loop
\* goes round
ToolNoData ==
    /\ connected
    /\ UNCHANGED readerVars
    /\ UNCHANGED notReader

\* recv returned b'' ("Connection closed"), the duration is over, or
\* Ctrl+C: the loop ends
ToolStop ==
    /\ connected
    /\ connected' = FALSE
    /\ UNCHANGED <<input, pos, buffer, line_queue>>
    /\ UNCHANGED notReader

InitToolMonitor ==
    StartReader /\ IdleClassifier /\ IdleStress /\ IdleRecovery
        /\ IdleStressRun /\ IdleTool /\ IdleRetry /\ IdleRunAll
        /\ IdleThreads /\ IdleHealth /\ IdleMonitor /\ IdleIsolate

NextToolMonitor ==
    \/ \E n \in 1..MaxStreamLen : ToolRecvData(n)
    \/ ToolNoData
    \/ ToolStop

SpecToolMonitor == InitToolMonitor /\ [][NextToolMonitor]_vars


-----------------------------------------------------------------------------
(* wait_for_recovery.main with a device that stays down                    *)
(*                                                                         *)
(* The clock and check_count are followed up to MaxClock seconds.  From    *)
(* then on the loop goes on as long as the checks fail -- elapsed and      *)
(* check_count are only printed there -- with the clock held at MaxClock   *)
(* and main at "late_check" for "check", so that a wait that goes on for   *)
(* ever is a cycle of the model.                                           *)

\* `check_count += 1; if check_device(): ... else: (progress line)` with a
\* check that fails, after MaxClock seconds
LateCheck(reply, d) ==
    /\ \/ wr_pc = "late_check"
       \/ wr_pc = "check" /\ wr_now + d > MaxClock
    /\ ~CheckDevice(reply)
    /\ wr_now' = MaxClock
    /\ device_up' = FALSE
    /\ wr_pc' = "sleep"
    /\ UNCHANGED <<down_since, check_count, stable_checks, recoveries>>
    /\ UNCHANGED notRecovery

\* `time.sleep(2)` at the end of the main loop, after MaxClock seconds
LateSleep ==
    /\ wr_pc = "sleep"
    /\ wr_now + 2 > MaxClock
    /\ wr_now' = MaxClock
    /\ wr_pc' = "late_check"
    /\ UNCHANGED <<down_since, check_count, stable_checks, recoveries, device_up>>
    /\ UNCHANGED notRecovery

NextRecoveryWait ==
    \/ NextRecovery
    \/ \E reply \in Replies, d \in 0..CheckTimeout : LateCheck(reply, d)
    \/ LateSleep

\* the interpreter always runs the next statement of main
SpecRecoveryWait ==
    InitRecovery /\ [][NextRecoveryWait]_vars /\ WF_vars(NextRecoveryWait)


-----------------------------------------------------------------------------
(* monitor-telnet.py: main and TelnetMonitor.run when the user does not    *)
(* press Ctrl+C                                                            *)

NextMonitorRun ==
    \/ \E ok \in BOOLEAN : MainConnect(ok)
    \/ RunEnter
    \/ DisplayGet
    \/ DisplayEnd
    \/ NextReader

SpecMonitorRun == InitMonitor /\ [][NextMonitorRun]_vars


-----------------------------------------------------------------------------
(* tests/tools/monitoring/telnet_monitor.py: TelnetMonitor.process_line    *)
(*                                                                         *)
(* A line is described by what the searches of process_line find in it:    *)
(* `errors`, the positions of the entries of error_patterns whose regex    *)
(* matches it (with re.IGNORECASE), `event`, the position of the first     *)
(* entry of important_patterns that matches it (0: none), and `filter`,    *)
(* whether the user's filter matches it.  process_line returns at the      *)
(* first match, so a line is described by the searches that are made: the  *)
(* lines with an error are described by `errors` alone.                    *)

\* self.error_patterns, in the order of the list
tool_error_patterns ==
    <<
    [pattern |-> "panic|PANIC", error_type |-> "PANIC"],
    [pattern |-> "assert|Assert", error_type |-> "ASSERT"],
    [pattern |-> "abort|Abort", error_type |-> "ABORT"],
    [pattern |-> "E \\(", error_type |-> "ERROR"],
    [pattern |-> "failed|Failed|FAILED", error_type |-> "FAILED"],
    [pattern |-> "crash|Crash|CRASH", error_type |-> "CRASH"],
    [pattern |-> "heap_caps_malloc.*failed", error_type |-> "HEAP_ALLOC_FAIL"],
    [pattern |-> "stack overflow", error_type |-> "STACK_OVERFLOW"],
    [pattern |-> "StoreProhibited|LoadProhibited", error_type |-> "MEMORY_ACCESS"],
    [pattern |-> "Guru Meditation", error_type |-> "GURU_MEDITATION"],
    [pattern |-> "Watchdog", error_type |-> "WATCHDOG"],
    [pattern |-> "Connection refused", error_type |-> "CONN_REFUSED"],
    [pattern |-> "Out of memory", error_type |-> "OOM"]
    >>

\* self.important_patterns: the event types, in the order of the list
important_patterns ==
    <<"MEMORY_LOG", "HEAP_INFO", "DRAM_INFO", "PSRAM_INFO", "OTA_EVENT",
      "WIFI_EVENT", "HTTP_EVENT", "RESTART", "VERSION">>

\* re.search(a, line, re.IGNORECASE) implies re.search(b, line,
\* re.IGNORECASE) for the entries at positions a and b of error_patterns:
\* what "heap_caps_malloc.*failed" matches contains "failed"
Entails == {<<7, 5>>}

\* the lines with at most MaxMatches matching error patterns
ToolLines ==
    [errors : {S \in SUBSET (1..Len(tool_error_patterns)) :
                  /\ S # {}
                  /\ Cardinality(S) <= MaxMatches
                  /\ \A e \in Entails : e[1] \in S => e[2] \in S},
     event : {0},
     filter : {FALSE}]
    \cup [errors : {{}}, event : 0..Len(important_patterns), filter : BOOLEAN]

\* `for pattern, error_type in self.error_patterns: if re.search(...)`:
\* the position of the first entry from i on that matches, 0 if none does
RECURSIVE FirstError(_, _)
FirstError(line, i) ==
    IF i > Len(tool_error_patterns) THEN 0
    ELSE IF i \in line.errors THEN i
    ELSE FirstError(line, i + 1)

\* self.stats[key] += 1 on a defaultdict(int)
Incr(counts, key) ==
    [k \in DOMAIN counts \cup {key} |->
        IF k = key
        THEN (IF key \in DOMAIN counts THEN counts[key] ELSE 0) + 1
        ELSE counts[k]]

\* process_line(line)
ProcessLine(line) ==
    /\ tool_result.kind # "idle"
    /\ tool_stats.total_lines < MaxToolLines
    /\ LET counted == [tool_stats EXCEPT !.total_lines = @ + 1]
           i == FirstError(line, 1)
       IN  IF i # 0
           THEN /\ tool_stats' =
                      [counted EXCEPT !.error = Incr(@, tool_error_patterns[i].error_type)]
                /\ tool_result' = [kind |-> "error", name |-> tool_error_patterns[i].error_type]
           ELSE IF line.event # 0
           THEN /\ tool_stats' =
                      [counted EXCEPT !.event = Incr(@, important_patterns[line.event])]
                /\ tool_result' = [kind |-> "event", name |-> important_patterns[line.event]]
           ELSE IF tool_filters # <<>>
           THEN IF line.filter
                THEN /\ tool_stats' =
                           [counted EXCEPT !.filter = Incr(@, tool_filters[1])]
                     /\ tool_result' = [kind |-> "filter", name |-> tool_filters[1]]
                ELSE /\ tool_stats' = counted
                     /\ tool_result' = [kind |-> "None", name |-> ""]
           ELSE /\ tool_stats' = counted
                /\ tool_result' = [kind |-> "plain", name |-> ""]
    /\ UNCHANGED tool_filters
    /\ UNCHANGED notTool

\* the monitor is constructed, with one filter added or with none
StartTool ==
    /\ tool_filters \in {<<>>, <<"wifi">>}
    /\ tool_stats = [total_lines |-> 0, error |-> <<>>, event |-> <<>>, filter |-> <<>>]
    /\ tool_result = [kind |-> "start", name |-> ""]

InitToolLines ==
    StartTool /\ IdleReader /\ IdleClassifier /\ IdleStress /\ IdleRecovery
        /\ IdleRetry /\ IdleStressRun /\ IdleRunAll /\ IdleThreads
        /\ IdleHealth /\ IdleMonitor /\ IdleIsolate

NextToolLines == \E line \in ToolLines : ProcessLine(line)

SpecToolLines == InitToolLines /\ [][NextToolLines]_vars


-----------------------------------------------------------------------------
(* monitor_device_health.py: DeviceHealthMonitor.get_stats                 *)

\* get_stats()['success_rate'], the quotient num / den:
\* `(total_requests - failed_requests) / total_requests * 100`, and 0 when
\* total_requests is 0
SuccessRate ==
    IF total_requests > 0
    THEN [num |-> (total_requests - failed_requests) * 100, den |-> total_requests]
    ELSE [num |-> 0, den |-> 1]


-----------------------------------------------------------------------------
(* pytest_plugins/esp32_safety.py: esp32_retry_on_connection_error         *)
(*                                                                         *)
(* One call of `wrapper`.  A call of test_func ends as <<"return", v>>,    *)
(* returning v, or as <<"raise", class>>, raising an exception of that     *)
(* class.  rt_result is <<"running", "">> while wrapper runs, then how it  *)
(* ended, in the same form.                                                *)

\* the ways a call of test_func ends
FuncOutcomes ==
    {<<"return", "None">>, <<"return", "value">>,
     <<"raise", "ConnectionError">>, <<"raise", "ConnectTimeout">>,
     <<"raise", "ReadTimeout">>, <<"raise", "AssertionError">>}

\* `for attempt in range(max_retries)`: the next value of attempt, or the
\* end of the loop, after which wrapper returns None
RetryFor ==
    /\ rt_pc = "for"
    /\ IF attempt + 1 < rt_max_retries
       THEN /\ attempt' = attempt + 1
            /\ rt_pc' = "try"
            /\ UNCHANGED rt_result
       ELSE /\ rt_pc' = "done"
            /\ rt_result' = <<"return", "None">>
            /\ UNCHANGED attempt
    /\ UNCHANGED <<rt_max_retries, rt_outcomes>>
    /\ UNCHANGED notRetry

\* `try: return test_func(*args, **kwargs)` and the except clause
RetryCall(outcome) ==
    /\ rt_pc = "try"
    /\ rt_outcomes' = Append(rt_outcomes, outcome)
    /\ IF outcome[1] = "return"
       THEN /\ rt_pc' = "done"
            /\ rt_result' = outcome
       ELSE IF IsConnectionError(outcome[2]) /\ attempt < rt_max_retries - 1
       THEN /\ rt_pc' = "sleep"
            /\ UNCHANGED rt_result
       ELSE /\ rt_pc' = "done"
            /\ rt_result' = outcome
    /\ UNCHANGED <<rt_max_retries, attempt>>
    /\ UNCHANGED notRetry

\* `time.sleep(1)`, then the loop goes round
RetrySleep ==
    /\ rt_pc = "sleep"
    /\ rt_pc' = "for"
    /\ UNCHANGED <<rt_max_retries, attempt, rt_outcomes, rt_result>>
    /\ UNCHANGED notRetry

\* wrapper is called: the loop has not yet drawn its first value
StartRetry(n) ==
    /\ rt_pc = "for"
    /\ rt_max_retries = n
    /\ attempt = -1
    /\ rt_outcomes = <<>>
    /\ rt_result = <<"running", "">>

InitRetry ==
    /\ IdleReader /\ IdleClassifier /\ IdleStress /\ IdleRecovery
           /\ IdleStressRun /\ IdleRunAll /\ IdleThreads /\ IdleHealth
           /\ IdleMonitor /\ IdleIsolate /\ IdleTool
    /\ \E n \in 0..MaxRetries : StartRetry(n)

NextRetry ==
    \/ RetryFor
    \/ \E outcome \in FuncOutcomes : RetryCall(outcome)
    \/ RetrySleep

SpecRetry == InitRetry /\ [][NextRetry]_vars

-----------------------------------------------------------------------------
(* Claims *)

\* The lines and the trailing fragment that the bytes received so far give
\* when they are decoded and split as one piece.
Unsplit == ProcessLines(Decode(SubSeq(input, 1, pos)), <<>>)

\* C1: whatever the recv chunk boundaries, reader_thread has put on
\* line_queue exactly the lines of the bytes received so far, in order, and
\* what it keeps in its buffer is a fragment with no newline in it.
ChunkSplitInvariance ==
    /\ line_queue = Unsplit.queue
    /\ FirstLF(buffer, 1) = 0

\* the log line with the given text
LineOf(text) == CHOOSE l \in LogLines : l.text = text

\* the rules whose pattern occurs in the line
Matching(line) == {i \in 1..Len(error_patterns) : Search(error_patterns[i], line)}

\* the first rule, in list order, among a non-empty set of rules
Earliest(rules) == CHOOSE i \in rules : \A j \in rules : i <= j

Categories == {error_patterns[i].category : i \in 1..Len(error_patterns)}

\* error_counts.get(c, 0)
CountOf(counts, c) == IF c \in DOMAIN counts THEN counts[c] ELSE 0

\* the line analyze_line was given in the step: the entry it appended
LineGiven == LineOf(context_lines'[Len(context_lines')])

\* C2: analyze_line of a line that some rule matches appends exactly one
\* incident and increments exactly one category count, both of the first
\* matching rule in list order; a line that no rule matches changes none of
\* error_history, error_counts, last_panic and is only added to the context
\* buffer.
FirstMatchOnly ==
    [][ LET M == Matching(LineGiven) IN
        IF M # {}
        THEN LET rule == error_patterns[Earliest(M)] IN
             /\ error_history' =
                   Append(error_history,
                          [line |-> LineGiven.text, category |-> rule.category,
                           severity |-> rule.severity])
             /\ \A c \in Categories :
                   CountOf(error_counts', c) =
                      CountOf(error_counts, c) + (IF c = rule.category THEN 1 ELSE 0)
             /\ DOMAIN error_counts' \subseteq Categories
        ELSE /\ UNCHANGED <<error_history, error_counts, last_panic>>
             /\ \E dropped \in 0..1 :
                   context_lines' =
                      Append(SubSeq(context_lines, 1 + dropped, Len(context_lines)),
                             LineGiven.text)
      ]_vars

\* C2 witness: one line matched by several rules gave one incident, and a
\* line matched by no rule gave none
FirstMatchOnlyWitness ==
    /\ Len(context_lines) = 2
    /\ Len(error_history) = 1
    /\ Cardinality(Matching(LineOf(error_history[1].line))) >= 2
    /\ \E k \in 1..2 : Matching(LineOf(context_lines[k])) = {}
    /\ Cardinality(DOMAIN error_counts) = 1

\* the lines that the PANIC rule and at least one other rule match
PanicAndMore ==
    {l \in LogLines :
        /\ \E i \in Matching(l) : error_patterns[i].category = "PANIC"
        /\ \E i \in Matching(l) : error_patterns[i].category # "PANIC"}

\* C3: a line that the PANIC rule and some other rule both match gives one
\* incident, and its category is PANIC.
PanicFirst ==
    [][ (LineGiven \in PanicAndMore) =>
          (/\ Len(error_history') = Len(error_history) + 1
           /\ error_history'[Len(error_history')].category = "PANIC"
           /\ error_history'[Len(error_history')].line = LineGiven.text)
      ]_vars

\* C3 witness: an incident of a line matched by PANIC and by the generic
\* FAILURE rule (and by ASSERTION)
PanicFirstWitness ==
    \E k \in 1..Len(error_history) :
        /\ LineOf(error_history[k].line) \in PanicAndMore
        /\ \E i \in Matching(LineOf(error_history[k].line)) :
              error_patterns[i].category = "FAILURE"
        /\ error_history[k].category = "PANIC"

\* C4 as stated, for the smallest default threshold (k = 3) of the design:
\* a crash is declared only at the k-th liveness probe that failed in a row.
CrashAfterKFailures ==
    LET k == 3 IN
    crash_declared => consecutive_failures >= k

\* C4, amended: the threshold is one probe.  A crash is declared exactly
\* when the liveness probe that follows a failed request fails; a probe that
\* succeeds declares none; a run declares at most one crash, and the
\* endurance test records it with the request count at that moment.
CrashAtFirstFailure ==
    /\ crash_declared <=> consecutive_failures = 1
    /\ consecutive_failures <= 1
    /\ test \in {"endpoint_endurance", "payload_bomb"} =>
          result.device_crashed = crash_declared
    /\ (test = "endpoint_endurance" /\ crash_declared) =>
          result.crash_after_requests = result.total_requests

\* C4 witness: an endurance run in which a probe succeeded after one failed
\* request, and the probe after the next failed request failed
CrashAtFirstFailureWitness ==
    /\ test = "endpoint_endurance"
    /\ crash_declared
    /\ result.crash_after_requests = 2
    /\ result.failed_requests = 2

\* C7: once a profile has declared a crash it is at its end: it takes no
\* further step, so it issues no further request or burst.
NoRequestAfterCrash ==
    crash_declared => pc = "done"

\* C7 witness: an endurance run that declared a crash before its duration
\* was over
NoRequestAfterCrashWitness ==
    /\ test = "endpoint_endurance"
    /\ crash_declared
    /\ now - local.start_time < args.duration

\* C8: in test_endpoint_endurance every request adds one to total_requests
\* and one to exactly one of successful_requests (status 200) and
\* failed_requests (another status, or an exception); nothing else changes
\* the counters; at every loop boundary and at the return
\* total_requests = successful_requests + failed_requests.
EveryRequestCounted ==
    [][ test = "endpoint_endurance" =>
          /\ (pc = "request" /\ pc' # "request") =>
                /\ result'.total_requests = result.total_requests + 1
                /\ \/ /\ result'.successful_requests = result.successful_requests + 1
                      /\ result'.failed_requests = result.failed_requests
                      /\ pc' = "rate_limit"
                   \/ /\ result'.successful_requests = result.successful_requests
                      /\ result'.failed_requests = result.failed_requests + 1
          /\ pc # "request" =>
                /\ result'.total_requests = result.total_requests
                /\ result'.successful_requests = result.successful_requests
                /\ result'.failed_requests = result.failed_requests
          /\ pc' \in {"loop", "done"} =>
                result'.total_requests =
                   result'.successful_requests + result'.failed_requests
      ]_vars

\* C8 witness: a finished run with a request that returned 200, one that
\* failed, and one that raised (the crash probe follows an exception only)
EveryRequestCountedWitness ==
    /\ test = "endpoint_endurance"
    /\ pc = "done"
    /\ result.successful_requests = 1
    /\ result.failed_requests = 2
    /\ result.device_crashed

\* C9: at every boundary of the burst loop and when test_concurrent_burst
\* ends, every burst that was started has been judged:
\* successful_bursts + failed_bursts is the number of bursts run, which is
\* at most burst_count.
EveryBurstJudged ==
    (test = "concurrent_burst" /\ pc \in {"burst_loop", "done", "raised"}) =>
        /\ result.successful_bursts + result.failed_bursts = local.bursts_started
        /\ local.bursts_started <= args.burst_count

\* C10: test_memory_exhaustion ends, whatever the acceleration and whatever
\* the device answers.
EscalationEnds ==
    <>(test = "memory_exhaustion" /\ pc = "done")

\* Last report printed by wait_for_recovery
LastRecovery == recoveries[Len(recoveries)]

\* C5: wait_for_recovery.main closes an outage exactly once, at the first
\* successful check of the main loop, with a report whose down_duration is
\* the time of that check minus the start of the outage; no other step
\* prints a report; an outage that starts after a recovery (a failed
\* stability check) starts later than that recovery, and every report
\* belongs to an outage that began after the previous report's recovery.
RecoveryClosedOnce ==
    [][ /\ (wr_pc = "check" /\ device_up')
            => recoveries' = Append(recoveries,
                                    [down_since |-> down_since,
                                     up_time |-> wr_now',
                                     down_duration |-> wr_now' - down_since])
        /\ ~(wr_pc = "check" /\ device_up') => recoveries' = recoveries
        /\ (down_since' # down_since)
            => /\ recoveries # <<>>
               /\ down_since' > LastRecovery.up_time
        /\ \A k \in 1..(Len(recoveries') - 1) :
              recoveries'[k + 1].down_since > recoveries'[k].up_time
      ]_vars

\* two outages have been closed, each by its own report
RecoveryClosedOnceWitness ==
    /\ Len(recoveries) = 2
    /\ recoveries[1].down_duration = recoveries[1].up_time - recoveries[1].down_since
    /\ recoveries[2].down_since > recoveries[1].up_time
    /\ recoveries[2].down_duration > 0

\* C6: wait_for_device returns True at the first probe that succeeds and
\* only then, returns False only once max_wait has gone by without a
\* successful probe, always returns, and after it has returned False
\* run_all_tests starts no further test.
WaitForDeviceBounded ==
    /\ [][
            /\ (ra_pc = "wait_probe")
                => (IF wait_alive' = "True"
                    THEN wait_result' = "True" /\ ra_pc' = "next_test"
                    ELSE wait_result' = "None" /\ ra_pc' = "wait_sleep")
            /\ (wait_result' = "True" /\ wait_result # "True")
                => (ra_pc = "wait_probe" /\ wait_alive' = "True")
            /\ (wait_result' = "False" /\ wait_result # "False")
                => /\ wait_elapsed >= max_wait
                   /\ wait_alive # "True"
                   /\ ra_pc' = "returned"
            /\ (wait_result = "False")
                => /\ ra_pc = "returned"
                   /\ UNCHANGED <<ra_index, results>>
          ]_vars
    /\ (ra_pc = "wait_loop" /\ wait_elapsed = 0)
          ~> (wait_result \in {"True", "False"})

\* wait_for_device gave up after max_wait and the run stopped with tests
\* left in the list
WaitForDeviceBoundedWitness ==
    /\ wait_result = "False"
    /\ wait_elapsed >= max_wait
    /\ ra_pc = "returned"
    /\ ra_index < Len(tests)

\* what run_all_tests sees of a test call is what the profile did
OutcomesCoverProfiles ==
    (pc \in {"done", "raised"}) =>
        ProfileOutcome \in
            TestOutcomes(IF test = "concurrent_burst"
                         THEN [test |-> test, burst_count |-> args.burst_count]
                         ELSE [test |-> test])

\* sizes of the POSTs that came back with a status the sweep counts as
\* handled
HandledSizes ==
    {local.sent[k].size : k \in {j \in 1..Len(local.sent) :
                                   local.sent[j].reply \in {"200", "201", "400", "413"}}}

\* POSTs that raised and were followed by a failed liveness probe
CrashedAt ==
    {k \in 1..Len(local.sent) :
        local.sent[k].reply = "raised" /\ local.sent[k].probe = "dead"}

\* C11: test_payload_bomb sends at most one POST per size, in ascending
\* order of size; max_payload_handled is the largest size that came back
\* with 200, 201, 400 or 413, and 0 when none did; the sweep stops at the
\* first size whose POST raised and whose liveness probe failed, with
\* device_crashed set and crash_at_size equal to that size.
PayloadSweepOrdered ==
    (test = "payload_bomb") =>
        /\ Len(local.sent) <= Len(sizes)
        /\ \A k \in 1..Len(local.sent) : local.sent[k].size = sizes[k]
        /\ \A j, k \in 1..Len(local.sent) :
              j < k => local.sent[j].size < local.sent[k].size
        /\ result.max_payload_handled \in HandledSizes \cup {0}
        /\ \A h \in HandledSizes : h <= result.max_payload_handled
        /\ \A k \in CrashedAt :
              /\ k = Len(local.sent)
              /\ pc = "done"
              /\ result.device_crashed
              /\ result.crash_at_size = local.sent[k].size
        /\ result.device_crashed => CrashedAt # {}

\* a sweep that handled some sizes, met an unhandled one, and stopped at
\* a later size where the device crashed
PayloadSweepOrderedWitness ==
    /\ test = "payload_bomb"
    /\ pc = "done"
    /\ result.device_crashed
    /\ result.crash_at_size = 2000
    /\ result.max_payload_handled = 500
    /\ local.sent[3].reply = "500"

\* request threads that have run single_request to its end
Finished == {t \in DOMAIN th_pc : th_pc[t] = "done"}

\* C14: the counters the request threads share lose no update: whenever
\* every thread started so far has finished, stats['requests'] is the
\* number of requests attempted and equals successes plus failures.
CountersLoseNoUpdate ==
    (th_started > 0 /\ \A t \in 1..th_started : th_pc[t] = "done") =>
        /\ stats["requests"] = Cardinality(Finished)
        /\ stats["requests"] = stats["successes"] + stats["failures"]

\* C15: after start(), stop() always returns and the monitor thread
\* exits, however stop() interleaves with the first steps of
\* monitor_loop; no sample is collected after stop() has returned.
StopAlwaysReturns ==
    /\ (hm_main = "join") ~> (hm_main = "stopped" /\ hm_thread = "exited")
    /\ [][ (hm_main = "stopped") => UNCHANGED <<total_requests, failed_requests, errors>>
         ]_vars

\* C16: when the peer closes the log socket or a read raises,
\* reader_thread clears `connected` and stops: it reads nothing more and
\* enqueues no further line; only a connect() call of main connects
\* again, and without --retry main calls connect() exactly once.
ReaderStopsOnDisconnect ==
    /\ [][ /\ (connected /\ ~connected') => (line_queue' = line_queue /\ pos' = pos)
           /\ (~connected) => (pos' = pos /\ Len(line_queue') <= Len(line_queue))
           /\ (~connected /\ connected') => (mn_connects' = mn_connects + 1)
         ]_vars
    /\ [](~mn_retry => mn_connects <= 1)
    /\ []((~mn_retry /\ mn_pc \in {"exit_0", "exit_1", "raised"}) => mn_connects = 1)

\* a run without --retry that ended after a read error with bytes still
\* to come, one line shown and one connect() call made
ReaderStopsOnDisconnectWitness ==
    /\ ~mn_retry
    /\ mn_pc = "exit_0"
    /\ mn_connects = 1
    /\ ~connected
    /\ pos < Len(input)
    /\ mn_lines = 1

IsPrefix(s, t) == Len(s) <= Len(t) /\ SubSeq(t, 1, Len(s)) = s

RunOver == ra_pc \in {"returned", "raised"}

\* C18: when run_all_tests ends, results holds exactly one timestamped
\* entry for every test that was started, in execution order, the test
\* whose crash ended the run included; tests are left out only after a
\* crash from which wait_for_device did not see the device recover.
ResultsComplete ==
    RunOver =>
        /\ Len(results) = ra_index
        /\ \A k \in 1..Len(results) :
              /\ results[k].test = tests[k].test
              /\ results[k].timestamp = "isoformat"
        /\ (ra_index < Len(tests)) =>
              /\ results # <<>>
              /\ results[Len(results)].device_crashed
              /\ wait_result = "False"

FailFast ==
    /\ [][ /\ (ra_pc = "main_probe" /\ wait_alive' = "False")
                => (ra_pc' = "not_responding")
           /\ (ra_pc = "not_responding") => UNCHANGED runAllVars
           /\ (iso_pc = "initial_check" /\ iso_health' = "False")
                => (iso_pc' = "not_responding")
           /\ (iso_pc = "not_responding") => UNCHANGED isolateVars
         ]_vars
    /\ [](ra_pc = "not_responding" => (ra_index = 0 /\ results = <<>>))
    /\ [](iso_pc = "not_responding" => (iso_index = 0 /\ iso_summary = "None"))

\* one of the runners has stopped at its failed first probe
FailFastWitness ==
    \/ /\ iso_pc = "not_responding"
       /\ iso_health = "False"
       /\ iso_index = 0
    \/ /\ ra_pc = "not_responding"
       /\ wait_alive = "False"
       /\ ra_index = 0

\* ---- C21

\* the requests test_request_rate_limit has counted, of all four kinds
Counted(r) ==
    r.successful_requests + r.failed_requests + r.timeouts + r.connection_errors

\* C21: in test_request_rate_limit every attempted request increments
\* exactly one of successful_requests, failed_requests, timeouts and
\* connection_errors, and a request that timed out increments timeouts only.
EveryAttemptCountedOnce ==
    [][ \A reply \in DiagReplies, d \in 1..DiagTimeout :
           RateLimitRequest(reply, d) =>
              /\ Counted(result') = Counted(result) + 1
              /\ IsTimeout(reply) =>
                    /\ result'.timeouts = result.timeouts + 1
                    /\ result'.connection_errors = result.connection_errors
                    /\ result'.failed_requests = result.failed_requests ]_vars

\* ---- C22

\* the run the claim names: requests_per_second = 2, duration = 10 s
TwoPerSecondForTen ==
    /\ test = "endpoint_endurance"
    /\ args.requests_per_second = <<2, TicksPerSecond>>
    /\ args.duration = 10 * TicksPerSecond

\* C22: with requests_per_second = 2, duration = 10 s and every request
\* answered 200 within 10 ms, test_endpoint_endurance ends with between 18
\* and 22 requests in total and no failed request; whatever the rate and
\* the duration, two requests start at least 1 / requests_per_second apart
\* and none starts once duration has elapsed.
EndurancePacing ==
    [][ test = "endpoint_endurance" =>
          /\ (TwoPerSecondForTen /\ pc' = "done") =>
                /\ result'.total_requests \in 18..22
                /\ result'.failed_requests = 0
          /\ (pc = "loop" /\ pc' = "request") =>
                /\ now - local.start_time < args.duration
                /\ result.total_requests > 0 =>
                      (local'.req_start - local.req_start) * args.requests_per_second[1]
                          >= args.requests_per_second[2] ]_vars

\* C22 witness: the run of the claim at its end, twenty requests made
EndurancePacingWitness ==
    /\ TwoPerSecondForTen
    /\ pc = "done"
    /\ result.total_requests = 20
    /\ result.successful_requests = 20

\* ---- C23

\* the last n entries of a sequence, all of them if it has fewer
LastN(s, n) == SubSeq(s, Max(1, Len(s) - n + 1), Len(s))

\* C23: after every call of analyze_line the context buffer holds at most
\* 2 * context_size entries (20 with context_size = 10), and they are the
\* lines received last, in the order they arrived: the buffer of before with
\* the new line at its end, cut to its last 2 * context_size entries.
ContextBounded ==
    [][ \A line \in LogLines :
           FormatLine(line) =>
              /\ Len(context_lines') <= 2 * context_size
              /\ Len(context_lines') <= 20
              /\ context_lines' =
                    LastN(Append(context_lines, line.text), 2 * context_size) ]_vars

\* C23 witness: the buffer is full and has lost its oldest two entries: it
\* holds the last 20 of 22 lines, the newest three of them not quiet lines
ContextBoundedWitness ==
    /\ mn_lines = 22
    /\ Len(context_lines) = 20
    /\ \A k \in 18..20 : context_lines[k] # QuietLine.text
    /\ context_lines[20] # context_lines[19]

\* ---- C24

\* the printed lines that handle_critical_error marked with ">>>"
MarkedLines == {j \in 1..Len(context_shown) : context_shown[j].marked}

\* C24: when a CRITICAL rule matches, the line handle_critical_error marks
\* in the context block is the buffer entry of the line that triggered the
\* incident, the entry just appended at the end of context_lines -- also
\* when an earlier entry has the same text -- and the lines printed before
\* it are the up to context_size entries that precede it in the buffer.
MarksTriggeringLine ==
    [][ \A line \in LogLines :
           (/\ FormatLine(line)
            /\ FirstMatch(line, 1) # 0
            /\ error_patterns[FirstMatch(line, 1)].severity = "CRITICAL") =>
              LET last == Len(context_lines')
                  before == Min(context_size, last - 1)
              IN  /\ Cardinality(MarkedLines') = 1
                  /\ \A j \in MarkedLines' :
                        /\ context_shown'[j].index = last
                        /\ j = before + 1
                  /\ \A j \in 1..before :
                        context_shown'[j].index = last - before + j - 1 ]_vars

\* ---- C25

\* the number of incidents of category c among the first n of a history
RECURSIVE Incidents(_, _, _)
Incidents(history, c, n) ==
    IF n = 0 THEN 0
    ELSE Incidents(history, c, n - 1) + (IF history[n].category = c THEN 1 ELSE 0)

\* the positions of the PANIC incidents of error_history
Panics == {k \in 1..Len(error_history) : error_history[k].category = "PANIC"}

\* C25: after any sequence of lines, error_counts[category] is the number
\* of incidents of that category in error_history (categories with no
\* incident have no entry), and last_panic is the latest PANIC incident of
\* error_history, None if there is none.
CountsMatchHistory ==
    /\ \A c \in Categories :
          CountOf(error_counts, c) = Incidents(error_history, c, Len(error_history))
    /\ DOMAIN error_counts \subseteq Categories
    /\ IF Panics = {}
       THEN last_panic = "None"
       ELSE last_panic = error_history[CHOOSE k \in Panics : \A j \in Panics : j <= k]

\* C25 witness: two PANIC incidents with an incident of another category
\* after them; last_panic is the second
CountsMatchHistoryWitness ==
    /\ Len(error_history) = 3
    /\ error_history[1].category = "PANIC"
    /\ error_history[2].category = "PANIC"
    /\ error_history[1].line # error_history[2].line
    /\ error_history[3].category # "PANIC"
    /\ last_panic = error_history[2]

\* ---- C26

\* C26: in stress_test freeze_detected starts False; it is written only by
\* the status monitor's report, only when more than 10 seconds have passed
\* since the last successful request, and only from False to True, so a
\* freeze is declared at most once in a run.
FreezeDeclaredOnce ==
    /\ ~stats.freeze_detected
    /\ [][ stats'.freeze_detected # stats.freeze_detected =>
              /\ ~stats.freeze_detected
              /\ stats'.freeze_detected
              /\ sm_pc = "sleep" /\ sm_pc' = "loop"
              /\ st_now - stats.last_success > HalfSeconds(10) ]_vars

\* C26 witness: a freeze has been declared in a run in which a request
\* had succeeded
FreezeDeclaredOnceWitness ==
    /\ stats.freeze_detected
    /\ stats.last_success > 0

\* ---- C27

\* the complete lines of the whole log stream: its text cut at every '\n',
\* what follows the last '\n' left out
CompleteLines == ProcessLines(DecodeIgnore(input), <<>>).queue

\* C27: TelnetMonitor.monitor of tests/tools (and monitor_telnet) hands on
\* complete lines only: whatever the recv calls the bytes arrive in, the
\* lines handed on so far are the first complete lines of the stream, each
\* one once and whole, never a fragment of a line.
OnlyCompleteLines ==
    IsPrefix(line_queue, CompleteLines)

\* ---- C28

\* C28: in stress_test, once freeze_detected has been set the main loop
\* starts no further burst of requests.
NoBurstAfterFreeze ==
    [][ (st_pc # "idle" /\ stats.freeze_detected) =>
           ~(st_pc = "loop" /\ st_pc' = "burst") ]_vars

\* ---- C29

\* C29: wait_for_recovery.main does not wait for ever: when the device
\* never answers a check, main leaves its loop after a bounded number of
\* checks (with a failure verdict).
RecoveryWaitEnds ==
    ([] ~device_up) => <>(wr_pc \notin {"check", "late_check", "verify", "sleep"})

\* ---- C30

\* main is inside TelnetMonitor.run
InRun == mn_pc \in {"run", "display"}

\* C30: every line the reader thread put on line_queue is taken from the
\* queue and counted in stats['lines'] exactly once, in the order it was
\* put there, before run returns, with a log file and without one: lines
\* leave the queue only at its head, one at a time and counted, and when
\* run is left no line is still queued.
RunCountsEveryLine ==
    [][ /\ line_queue' # line_queue =>
              \/ IsPrefix(line_queue, line_queue') /\ mn_lines' = mn_lines
              \/ /\ line_queue # <<>>
                 /\ line_queue' = Tail(line_queue)
                 /\ mn_lines' = mn_lines + 1
        /\ (InRun /\ ~InRun') => line_queue' = <<>>
      ]_vars

\* ---- C31

\* C31: every line that run takes from the queue (stats['lines'] grows by
\* one) is given to analyze_line exactly once, whatever display filters were
\* added: the line enters the context buffer, and when a rule matches it
\* exactly one incident with its text is appended to error_history.
EveryLineAnalyzed ==
    [][ (mn_lines' = mn_lines + 1) =>
           /\ context_lines' = PushContext(context_lines, mn_line'.text)
           /\ (FirstMatch(mn_line', 1) # 0) =>
                 /\ Len(error_history') = Len(error_history) + 1
                 /\ error_history'[Len(error_history')].line = mn_line'.text
           /\ (FirstMatch(mn_line', 1) = 0) => (error_history' = error_history)
      ]_vars

\* ---- C32

\* some rule of severity CRITICAL matches the line
MatchesCritical(line) ==
    \E i \in 1..Len(error_patterns) :
        error_patterns[i].severity = "CRITICAL" /\ Search(error_patterns[i], line)

\* C32: no incident of a line that a CRITICAL rule matches has a severity
\* below CRITICAL, whichever other rules match the line too.
CriticalNeverDowngraded ==
    \A k \in 1..Len(error_history) :
        MatchesCritical(LineOf(error_history[k].line)) =>
            error_history[k].severity = "CRITICAL"

\* ---- C33

\* C33: every entry of the tools monitor's error_patterns can fire: whenever
\* process_line can be called, there is for each error type of the list a
\* line that the call files under that type, so no entry is always
\* pre-empted by an earlier one.
EveryPatternCanFire ==
    (tool_result.kind # "idle" /\ tool_stats.total_lines < MaxToolLines) =>
        \A i \in 1..Len(tool_error_patterns) :
            ENABLED (/\ NextToolLines
                     /\ tool_result'.kind = "error"
                     /\ tool_result'.name = tool_error_patterns[i].error_type)

\* ---- C34

\* the samples taken so far that got a 200 answer, and all of them, as the
\* errors deque records them (an entry per sample, 0 for a 200 answer);
\* the deque has dropped no entry while the counters are within MaxSamples
SuccessfulSamples == Cardinality({k \in 1..Len(errors) : errors[k] = 0})

SamplesTaken == Len(errors)

\* C34: after any sequence of collect_sample outcomes the success_rate of
\* get_stats lies between 0 and 100 and is 100 * successful samples /
\* samples taken (0 when no sample was taken).
SuccessRateExact ==
    (total_requests + failed_requests <= MaxSamples) =>
        /\ 0 <= SuccessRate.num
        /\ SuccessRate.num <= 100 * SuccessRate.den
        /\ SuccessRate.num * SamplesTaken = 100 * SuccessfulSamples * SuccessRate.den

\* ---- C35

\* C35: when wrapper has ended, test_func was called at least once and at
\* most max_retries times; every call but the last raised a
\* ConnectionError (so a normal return and any other exception end the
\* wrapper at once), and wrapper ended as the last call did: it returned
\* what the call returned or raised what the call raised.
RetryContract ==
    (rt_pc = "done") =>
        LET calls == Len(rt_outcomes) IN
        /\ calls >= 1
        /\ calls <= rt_max_retries
        /\ \A k \in 1..(calls - 1) :
              /\ rt_outcomes[k][1] = "raise"
              /\ IsConnectionError(rt_outcomes[k][2])
        /\ rt_result = rt_outcomes[calls]

\* ---- C36

\* C36: the final summary of isolate_freeze.main says that a freeze was
\* detected exactly when a test returned False (iso_failed is its number)
\* or the health check between two tests failed (the last check_health
\* returned False); it says that no freeze was detected only when all the
\* tests completed.
SummaryTellsFreeze ==
    (iso_pc = "done") =>
        /\ (iso_summary = "Device freeze was detected") <=>
              (iso_failed # 0 \/ iso_health = "False")
        /\ (iso_summary = "No freezes detected") =>
              (iso_failed = 0 /\ iso_index = Len(iso_tests) /\ iso_health = "True")

\* ---- C37

\* C37: main exits with success only after six successful probes in a row,
\* the recovering probe of the main loop and then five stability checks:
\* stable_checks is set to 0 by a successful probe of the main loop and
\* grows by one with each successful stability check that follows it, main
\* is at "verify" only while the last probe succeeded, and sys.exit(0) is
\* reached only by the fifth successful stability check.  A failed
\* stability check sets down_since to the present time and the wait goes on
\* with the sleep of the main loop.
ExitAfterSixProbes ==
    /\ [](StabilityChecks + 1 = 6)
    /\ []((wr_pc \in {"verify", "exit"}) => device_up)
    /\ [][ /\ (wr_pc # "exit" /\ wr_pc' = "exit") =>
                (wr_pc = "verify" /\ device_up' /\ stable_checks' = StabilityChecks)
           /\ (stable_checks' # stable_checks) =>
                \/ wr_pc = "check" /\ device_up' /\ stable_checks' = 0
                \/ wr_pc = "verify" /\ device_up' /\ stable_checks' = stable_checks + 1
           /\ (wr_pc # "verify" /\ wr_pc' = "verify") =>
                (wr_pc = "check" /\ device_up' /\ stable_checks' = 0)
           /\ (wr_pc = "verify" /\ ~device_up') =>
                (down_since' = wr_now' /\ wr_pc' = "sleep" /\ check_count' = check_count)
      ]_vars

\* C37 witness: main has exited after a first recovery that failed its
\* stability checks and a second one that passed all five
ExitAfterSixProbesWitness ==
    /\ wr_pc = "exit"
    /\ Len(recoveries) = 2
    /\ stable_checks = StabilityChecks
    /\ down_since > 0

\* ---- C38

\* two fractions that are the same rate
SameRate(r, q) == r[1] * q[2] = q[1] * r[2]

\* C38: when test_memory_exhaustion has ended, by a detected crash or at
\* the safety cap, the max_rate_achieved of its result is one of the rates
\* at which it sent a request during the run.
MaxRateWasIssued ==
    (test = "memory_exhaustion" /\ pc = "done") =>
        \E r \in local.issued : SameRate(r, result.max_rate_achieved)

====
